---- MODULE Spec2Model ----
(***************************************************************************)
(* A model of pytrip's Cube (src/pytrip/cube.py) and DosCube               *)
(* (src/pytrip/dos.py): the voxel grid with its geometry, the contour      *)
(* masking scan, compatibility and merging, and the TRiP98 header/data     *)
(* round trip.                                                             *)
(*                                                                         *)
(* Numbers.  Python floats are modelled as exact fixed-point integers.     *)
(* A length stored in a cube (pixel_size, slice_distance, offsets, slice   *)
(* positions) is a whole number of units of 1e-8 mm, so that the header's  *)
(* "{:.7f}" and "{:14.4f}" formats are real roundings.  A position (what   *)
(* indices_to_pos returns, and what the region of interest is asked about  *)
(* and answers with) is held doubled, in half units, so that the voxel     *)
(* centre (i + 0.5) * pixel_size stays a whole number.                     *)
(***************************************************************************)
EXTENDS Integers, Sequences, FiniteSets, TLC

VARIABLES
    cubes,      \* the two Cube objects "a" and "b": id -> record of attributes
    voi,        \* the region of interest handed to the masking operations
    disk,       \* the header/data pair last written, or NoFile
    scan,       \* the row scan of the masking loop, column by column
    last        \* the operation performed last, its arguments and the state before it

vars == <<cubes, voi, disk, scan, last>>

-----------------------------------------------------------------------------
(* Units and bounds *)

\* one millimetre, in units of 1e-8 mm
MM == 100000000

\* eps of check_compatibility, 1e-5 mm
Eps == 1000

\* the quantum of "{:.7f}" (pixel_size, slice_distance) and of "{:14.4f}" (slice table)
Q7 == 10
Q4 == 10000

\* the empty-string sentinel Cube.__init__ leaves in the numeric attributes
Unset == -1

MaxDimX == 4
MaxDimY == 2
MaxDimZ == 2
\* longest crossing list of a row
MaxCross == 4
\* operations performed in one behaviour
MaxOps == 2
\* voxels of the cubes that are merged
MaxLen == 3

CubeIds == {"a", "b"}

-----------------------------------------------------------------------------
(* Arithmetic helpers *)

Abs(n) == IF n < 0 THEN -n ELSE n

Max(m, n) == IF m >= n THEN m ELSE n

\* a signed 16-bit element: numpy's int16 wraps around
Int16(n) == ((n + 32768) % 65536) - 32768

\* float -> "%.Nf" text -> float(): v rounded to a multiple of the quantum q
Fmt(v, q) == ((2 * v + q) \div (2 * q)) * q

\* int(round(x / y)) for y > 0
RoundDiv(x, y) == (2 * x + y) \div (2 * y)

-----------------------------------------------------------------------------
(* The voxel array: cube[i_z][i_y][i_x], here 1-based sequences *)

Grid(dimz, dimy, dimx, v) == [z \in 1..dimz |-> [y \in 1..dimy |-> [x \in 1..dimx |-> v]]]

\* numpy's shape of a grid with at least one voxel
Shape(g) == <<Len(g), Len(g[1]), Len(g[1][1])>>

\* np.maximum on two grids of one shape
maximum(g, h) ==
    [z \in 1..Len(g) |-> [y \in 1..Len(g[z]) |-> [x \in 1..Len(g[z][y]) |->
        Max(g[z][y][x], h[z][y][x])]]]

\* g[g == 0] = h[g == 0] on two grids of one shape
assign_where_zero(g, h) ==
    [z \in 1..Len(g) |-> [y \in 1..Len(g[z]) |-> [x \in 1..Len(g[z][y]) |->
        IF g[z][y][x] = 0 THEN h[z][y][x] ELSE g[z][y][x]]]]

\* g[h != 0] = h[h != 0] on two grids of one shape
assign_where_nonzero(g, h) ==
    [z \in 1..Len(g) |-> [y \in 1..Len(g[z]) |-> [x \in 1..Len(g[z][y]) |->
        IF h[z][y][x] # 0 THEN h[z][y][x] ELSE g[z][y][x]]]]

-----------------------------------------------------------------------------
(* Cube.__init__ without an argument.  slice_pos is a Python list, an object that
   assignment shares: slice_pos_id names the list object the attribute is bound
   to.  It is looked at only in SpecCopy, where the cubes start with a list each. *)

NewCube ==
    [ header_set      |-> FALSE,
      version         |-> "2.0",
      data_type       |-> "",
      num_bytes       |-> Unset,
      byte_order      |-> "vms",
      patient_name    |-> "",
      slice_dimension |-> Unset,
      pixel_size      |-> Unset,
      slice_distance  |-> Unset,
      slice_thickness |-> Unset,
      slice_number    |-> Unset,
      xoffset         |-> 0,
      dimx            |-> Unset,
      yoffset         |-> 0,
      dimy            |-> Unset,
      zoffset         |-> 0,
      dimz            |-> Unset,
      slice_pos       |-> <<>>,
      slice_pos_id    |-> 0,
      basename        |-> "",
      z_table         |-> FALSE,
      format_str      |-> <<>>,
      pydata_type     |-> "",
      cube            |-> <<>> ]

\* Cube.create_empty_cube
create_empty_cube(c, value, dimx, dimy, dimz, pixel_size, slice_distance, slice_offset) ==
    [c EXCEPT
        !.dimx = dimx,
        !.dimy = dimy,
        !.dimz = dimz,
        !.slice_number = dimz,
        !.pixel_size = pixel_size,
        !.slice_distance = slice_distance,
        !.slice_thickness = slice_distance,
        !.cube = Grid(dimz, dimy, dimx, Int16(value)),
        !.slice_dimension = dimx,
        !.num_bytes = 2,
        !.data_type = "integer",
        !.pydata_type = "int16",
        !.slice_pos = [i \in 1..dimz |-> slice_distance * (i - 1) + slice_offset],
        !.header_set = TRUE]

\* Cube.indices_to_pos: <<x, y, z>> of the voxel <<i, j, k>> (0-based), in half units
indices_to_pos(c, indices) ==
    << (2 * indices[1] + 1) * c.pixel_size + 2 * c.xoffset,
       (2 * indices[2] + 1) * c.pixel_size + 2 * c.yoffset,
       2 * c.slice_pos[indices[3] + 1] >>

-----------------------------------------------------------------------------
(* The region of interest (Voi, pytrip.vdx): the rasterizer sees it only      *)
(* through get_row_intersections(pos), which answers None when it has no data *)
(* there and else the sorted x-crossings of the row through pos.  A region is *)
(* a prism here: the slices zs, the y extent ylo..yhi, one crossing list cr   *)
(* for the rows in that extent, plus the rows ynone it has no data for.       *)

NoData == [none |-> TRUE, xs |-> <<>>]

Crossings(xs) == [none |-> FALSE, xs |-> xs]

get_row_intersections(v, pos) ==
    IF pos[3] \notin v.zs \/ pos[2] \in v.ynone THEN NoData
    ELSE IF v.ylo <= pos[2] /\ pos[2] <= v.yhi THEN Crossings(v.cr)
    ELSE Crossings(<<>>)

-----------------------------------------------------------------------------
(* The masking scan *)

\* scan_row with ">=" for ">" in the comparison of the voxel centre with the crossing
RECURSIVE scan_row_ge(_, _, _, _, _)
scan_row_ge(c, cr, i_x, k, hit) ==
    IF i_x >= c.dimx THEN hit
    ELSE LET k1 == IF (2 * i_x + 1) * c.pixel_size + 2 * c.xoffset >= cr[k + 1] THEN k + 1 ELSE k
         IN  IF k1 > k /\ k1 >= Len(cr) THEN hit
             ELSE scan_row_ge(c, cr, i_x + 1, k1, IF k1 % 2 = 1 THEN hit \cup {i_x} ELSE hit)

\* The "for i_x in range(self.dimx)" loop over one row with the non-empty crossing
\* list cr, from column i_x on with counter k: the columns that get the effect.
RECURSIVE scan_row(_, _, _, _, _)
scan_row(c, cr, i_x, k, hit) ==
    IF i_x >= c.dimx THEN hit
    ELSE LET k1 == IF indices_to_pos(c, <<i_x, 0, 0>>)[1] > cr[k + 1] THEN k + 1 ELSE k
         IN  IF k1 > k /\ k1 >= Len(cr) THEN hit
             ELSE scan_row(c, cr, i_x + 1, k1, IF k1 % 2 = 1 THEN hit \cup {i_x} ELSE hit)

\* what the region answers for row i_y of slice i_z
row_intersection(c, v, i_y, i_z) == get_row_intersections(v, indices_to_pos(c, <<0, i_y, i_z>>))

\* "if intersection is None: break": the rows of slice i_z the loop gets to scan
rows_scanned(c, v, i_z) ==
    LET nodata == {y \in 0..(c.dimy - 1) : row_intersection(c, v, y, i_z).none}
    IN  IF nodata = {} THEN c.dimy
        ELSE CHOOSE y \in nodata : \A w \in nodata : y <= w

\* the columns of row i_y of slice i_z that get the effect
masked_columns(c, v, i_y, i_z) ==
    LET inter == row_intersection(c, v, i_y, i_z)
    IN  IF i_y < rows_scanned(c, v, i_z) /\ Len(inter.xs) > 0
        THEN scan_row(c, inter.xs, 0, 0, {})
        ELSE {}

\* mask_by_voi with "+=" for "=" on the interior voxels
mask_by_voi_accumulating(c, v, value) ==
    [c EXCEPT !.cube =
        [z \in 1..Len(c.cube) |-> [y \in 1..Len(c.cube[z]) |-> [x \in 1..Len(c.cube[z][y]) |->
            IF z <= c.dimz /\ y <= c.dimy /\ (x - 1) \in masked_columns(c, v, y - 1, z - 1)
            THEN Int16(c.cube[z][y][x] + value)
            ELSE c.cube[z][y][x]]]]]

\* Cube.mask_by_voi
mask_by_voi(c, v, value) ==
    [c EXCEPT !.cube =
        [z \in 1..Len(c.cube) |-> [y \in 1..Len(c.cube[z]) |-> [x \in 1..Len(c.cube[z][y]) |->
            IF z <= c.dimz /\ y <= c.dimy /\ (x - 1) \in masked_columns(c, v, y - 1, z - 1)
            THEN Int16(value)
            ELSE c.cube[z][y][x]]]]]

\* mask_by_voi_add with "continue" for "break" on a row without data
mask_by_voi_add_no_break(c, v, value) ==
    [c EXCEPT !.cube =
        [z \in 1..Len(c.cube) |-> [y \in 1..Len(c.cube[z]) |-> [x \in 1..Len(c.cube[z][y]) |->
            IF /\ z <= c.dimz /\ y <= c.dimy
               /\ Len(row_intersection(c, v, y - 1, z - 1).xs) > 0
               /\ (x - 1) \in scan_row(c, row_intersection(c, v, y - 1, z - 1).xs, 0, 0, {})
            THEN Int16(c.cube[z][y][x] + value)
            ELSE c.cube[z][y][x]]]]]

\* Cube.mask_by_voi_add
mask_by_voi_add(c, v, value) ==
    [c EXCEPT !.cube =
        [z \in 1..Len(c.cube) |-> [y \in 1..Len(c.cube[z]) |-> [x \in 1..Len(c.cube[z][y]) |->
            IF z <= c.dimz /\ y <= c.dimy /\ (x - 1) \in masked_columns(c, v, y - 1, z - 1)
            THEN Int16(c.cube[z][y][x] + value)
            ELSE c.cube[z][y][x]]]]]

\* mask_by_voi_all that fills the interior into the old array instead of a fresh one
mask_by_voi_all_in_place(c, v, preset) ==
    [c EXCEPT !.cube =
        [z \in 1..c.dimz |-> [y \in 1..c.dimy |-> [x \in 1..c.dimx |->
            IF preset # 0 /\ (x - 1) \in masked_columns(c, v, y - 1, z - 1)
            THEN Int16(preset)
            ELSE c.cube[z][y][x]]]]]

\* Cube.mask_by_voi_all (data_type left at its default, np.int16)
mask_by_voi_all(c, v, preset) ==
    [c EXCEPT !.cube =
        [z \in 1..c.dimz |-> [y \in 1..c.dimy |-> [x \in 1..c.dimx |->
            IF preset # 0 /\ (x - 1) \in masked_columns(c, v, y - 1, z - 1)
            THEN Int16(preset)
            ELSE 0]]]]

-----------------------------------------------------------------------------
(* The history variable: the operation performed last *)

Idle == [cr |-> <<>>, i_x |-> 0, k |-> 0, hit |-> {}, pc |-> "idle"]

NoOp(cs) ==
    [ op |-> "none", id |-> "a", other |-> "a", value |-> 0, result |-> FALSE,
      prev |-> "none", prevvalue |-> 0, pre |-> cs, n |-> 0 ]

\* the record of the operation op on cube id with argument value
Did(op, id, other, value, result) ==
    [ op |-> op, id |-> id, other |-> other, value |-> value, result |-> result,
      prev |-> last.op, prevvalue |-> last.value, pre |-> cubes, n |-> last.n + 1 ]

-----------------------------------------------------------------------------
(* Masking a cube: the specification SpecMask *)

FillValues == {0, 5}
MaskValues == {1, 2}
Presets == {0, 2}

\* The crossing lists of the regions, in half units; the voxel centres of a cube of
\* pixel size 1 mm lie at MM, 3 MM, 5 MM, ...: an empty row, one span, a single
\* crossing, three crossings, two crossings between two adjacent centres, two spans.
MaskCrossings ==
    { <<>>,
      <<2 * MM, 6 * MM>>,
      <<2 * MM>>,
      <<2 * MM, 4 * MM, 6 * MM>>,
      <<4 * MM - Q7, 4 * MM + Q7>>,
      <<0, 2 * MM, 4 * MM, 6 * MM>> }

\* the z positions of the slices of c, in half units
SliceZs(c) == {2 * c.slice_pos[i] : i \in 1..Len(c.slice_pos)}

MaskVois(c) ==
    { [cr |-> cr, ylo |-> yr[1], yhi |-> yr[2], zs |-> zs, ynone |-> yn] :
        cr \in MaskCrossings,
        yr \in {<<0, 20 * MM>>, <<2 * MM, 4 * MM>>},
        zs \in {SliceZs(c), {}, {2 * c.slice_pos[1]}, SliceZs(c) \ {2 * c.slice_pos[1]}},
        yn \in {{}, {MM}, {3 * MM}} }

NoVoi == [cr |-> <<>>, ylo |-> 0, yhi |-> 0, zs |-> {}, ynone |-> {}]

NoFile == [exists |-> FALSE]

InitMask ==
    /\ \E fill \in FillValues :
          cubes = [a |-> create_empty_cube(NewCube, fill, MaxDimX, MaxDimY, MaxDimZ,
                                           MM, 2 * MM, 5 * MM),
                   b |-> NewCube]
    /\ voi \in MaskVois(cubes["a"])
    /\ disk = NoFile
    /\ scan = Idle
    /\ last = NoOp(cubes)

MaskByVoi ==
    /\ last.n < MaxOps
    /\ \E value \in MaskValues :
          /\ cubes' = [cubes EXCEPT !["a"] = mask_by_voi(cubes["a"], voi, value)]
          /\ last' = Did("mask_by_voi", "a", "a", value, FALSE)
    /\ UNCHANGED <<voi, disk, scan>>

MaskByVoiAdd ==
    /\ last.n < MaxOps
    /\ \E value \in MaskValues :
          /\ cubes' = [cubes EXCEPT !["a"] = mask_by_voi_add(cubes["a"], voi, value)]
          /\ last' = Did("mask_by_voi_add", "a", "a", value, FALSE)
    /\ UNCHANGED <<voi, disk, scan>>

MaskByVoiAll ==
    /\ last.n < MaxOps
    /\ \E preset \in Presets :
          /\ cubes' = [cubes EXCEPT !["a"] = mask_by_voi_all(cubes["a"], voi, preset)]
          /\ last' = Did("mask_by_voi_all", "a", "a", preset, FALSE)
    /\ UNCHANGED <<voi, disk, scan>>

NextMask == MaskByVoi \/ MaskByVoiAdd \/ MaskByVoiAll

SpecMask == InitMask /\ [][NextMask]_vars

-----------------------------------------------------------------------------
(* The 10 x 10 x 1 cube of pixel size 1 mm and the square region from         *)
(* (2.5, 2.5) to (7.5, 7.5) mm: the specification SpecSquare.  Whether the    *)
(* rows through y = 2.5 and y = 7.5, which run along an edge of the square,   *)
(* cross it is the region's decision: all four answers are tried.             *)

SquareVois ==
    { [cr |-> <<5 * MM, 15 * MM>>, ylo |-> ylo, yhi |-> yhi, zs |-> {0}, ynone |-> {}] :
        ylo \in {5 * MM, 5 * MM + 1}, yhi \in {15 * MM - 1, 15 * MM} }

InitSquare ==
    /\ \E fill \in FillValues :
          cubes = [a |-> create_empty_cube(NewCube, fill, 10, 10, 1, MM, MM, 0), b |-> NewCube]
    /\ voi \in SquareVois
    /\ disk = NoFile
    /\ scan = Idle
    /\ last = NoOp(cubes)

SpecSquare == InitSquare /\ [][NextMask]_vars

-----------------------------------------------------------------------------
(* One row of the masking scan, column by column: the specification SpecRow *)

\* the sequences over the integer set S of length 0..n; RowCrossings keeps the sorted ones
RECURSIVE SortedSeqs(_, _)
SortedSeqs(S, n) ==
    IF n = 0 THEN {<<>>}
    ELSE LET shorter == SortedSeqs(S, n - 1)
         IN  shorter \cup
             { Append(q, x) : q \in {r \in shorter : Len(r) = n - 1}, x \in S } 

IsSorted(q) == \A i \in 1..(Len(q) - 1) : q[i] <= q[i + 1]

\* crossings every half pixel from MM/2 on, in half units
RowKeys == {n * (MM \div 2) : n \in 1..(2 * MaxDimX)}

RowCrossings == {q \in SortedSeqs(RowKeys, MaxCross) : Len(q) > 0 /\ IsSorted(q)}

InitRow ==
    /\ \E dimx \in 1..MaxDimX :
          cubes = [a |-> create_empty_cube(NewCube, 0, dimx, 1, 1, MM, MM, 0), b |-> NewCube]
    /\ voi = NoVoi
    /\ disk = NoFile
    /\ \E cr \in RowCrossings : scan = [cr |-> cr, i_x |-> 0, k |-> 0, hit |-> {}, pc |-> "loop"]
    /\ last = NoOp(cubes)

\* RowStep without the break: the loop goes on with k at the crossing count
RowStep_no_break ==
    /\ scan.pc = "loop"
    /\ scan.k < Len(scan.cr)
    /\ LET c == cubes["a"]
           k1 == IF indices_to_pos(c, <<scan.i_x, 0, 0>>)[1] > scan.cr[scan.k + 1]
                 THEN scan.k + 1 ELSE scan.k
       IN  scan' = [scan EXCEPT
                       !.k = k1,
                       !.hit = IF k1 % 2 = 1 THEN scan.hit \cup {scan.i_x} ELSE scan.hit,
                       !.i_x = scan.i_x + 1,
                       !.pc = IF scan.i_x + 1 >= c.dimx THEN "done" ELSE "loop"]
    /\ UNCHANGED <<cubes, voi, disk, last>>

\* one iteration of "for i_x in range(self.dimx)" of the masking operations
RowStep ==
    /\ scan.pc = "loop"
    /\ LET c == cubes["a"]
           k1 == IF indices_to_pos(c, <<scan.i_x, 0, 0>>)[1] > scan.cr[scan.k + 1]
                 THEN scan.k + 1 ELSE scan.k
           broke == k1 > scan.k /\ k1 >= Len(scan.cr)
           hit1 == IF ~broke /\ k1 % 2 = 1 THEN scan.hit \cup {scan.i_x} ELSE scan.hit
       IN  scan' = [scan EXCEPT
                       !.k = k1,
                       !.hit = hit1,
                       !.i_x = IF broke THEN scan.i_x ELSE scan.i_x + 1,
                       !.pc = IF broke \/ scan.i_x + 1 >= c.dimx THEN "done" ELSE "loop"]
    /\ UNCHANGED <<cubes, voi, disk, last>>

NextRow == RowStep

SpecRow == InitRow /\ [][NextRow]_vars

\* the loop is straight-line sequential code: an iteration that can run does run
SpecRowFair == SpecRow /\ WF_vars(RowStep)

-----------------------------------------------------------------------------
(* Compatibility of two cubes: the specification SpecCompat *)

\* one pixel size, one within eps of it (and finer than the header's seven decimals),
\* one further away from both than eps
PixelSizes == {MM, MM + 4, MM + 2 * Eps}

SliceDistances == {MM, 3 * MM}

\* Cube.check_compatibility
check_compatibility(a, b) ==
    IF a.dimx # b.dimx THEN FALSE
    ELSE IF a.dimy # b.dimy THEN FALSE
    ELSE IF a.dimz # b.dimz THEN FALSE
    ELSE IF (a.pixel_size - b.pixel_size) > Eps THEN FALSE
    ELSE IF a.slice_distance # b.slice_distance THEN FALSE
    ELSE TRUE

\* Cube.is_compatible
is_compatible(self, other) == check_compatibility(self, other)

\* the cubes create_empty_cube builds with one or two voxels along each axis
SmallCubes ==
    { create_empty_cube(NewCube, 0, dimx, dimy, dimz, ps, sd, 0) :
        dimx \in 1..2, dimy \in 1..2, dimz \in 1..2, ps \in PixelSizes, sd \in SliceDistances }

InitCompat ==
    /\ cubes \in [CubeIds -> SmallCubes]
    /\ voi = NoVoi
    /\ disk = NoFile
    /\ scan = Idle
    /\ last = NoOp(cubes)

CheckCompatibility ==
    /\ last.n < MaxOps
    /\ \E x, y \in CubeIds :
          last' = Did("check_compatibility", x, y, 0, check_compatibility(cubes[x], cubes[y]))
    /\ UNCHANGED <<cubes, voi, disk, scan>>

IsCompatible ==
    /\ last.n < MaxOps
    /\ \E x, y \in CubeIds :
          last' = Did("is_compatible", x, y, 0, is_compatible(cubes[x], cubes[y]))
    /\ UNCHANGED <<cubes, voi, disk, scan>>

NextCompat == CheckCompatibility \/ IsCompatible

SpecCompat == InitCompat /\ [][NextCompat]_vars

-----------------------------------------------------------------------------
(* Merging two cubes: the specification SpecMerge *)

MergeValues == {-1, 0, 2}

\* merge that keeps the other cube's voxel wherever that one is not zero
merge_overwriting(self, cube) ==
    [self EXCEPT !.cube = assign_where_nonzero(self.cube, cube.cube)]

\* Cube.merge
merge(self, cube) ==
    [self EXCEPT !.cube = maximum(self.cube, cube.cube)]

\* merge_zero that takes the other cube's voxel wherever that one is not zero
merge_zero_overwriting(self, cube) ==
    [self EXCEPT !.cube = assign_where_nonzero(self.cube, cube.cube)]

\* Cube.merge_zero
merge_zero(self, cube) ==
    [self EXCEPT !.cube = assign_where_zero(self.cube, cube.cube)]

\* a cube of n voxels in a row holding the int16 values vals, as a read of a data
\* file or an assignment to its cube attribute leaves it
RowCube(ps, vals) ==
    [create_empty_cube(NewCube, 0, Len(vals), 1, 1, ps, MM, 0) EXCEPT !.cube = <<<<vals>>>>]

InitMerge ==
    /\ \E n \in 1..MaxLen :
          \E va, vb \in [1..n -> MergeValues] :
              cubes = [a |-> RowCube(MM, va), b |-> RowCube(MM + 4, vb)]
    /\ voi = NoVoi
    /\ disk = NoFile
    /\ scan = Idle
    /\ last = NoOp(cubes)

Merge ==
    /\ last.n < 1
    /\ \E x, y \in CubeIds :
          /\ cubes' = [cubes EXCEPT ![x] = merge(cubes[x], cubes[y])]
          /\ last' = Did("merge", x, y, 0, FALSE)
    /\ UNCHANGED <<voi, disk, scan>>

MergeZero ==
    /\ last.n < 1
    /\ \E x, y \in CubeIds :
          /\ cubes' = [cubes EXCEPT ![x] = merge_zero(cubes[x], cubes[y])]
          /\ last' = Did("merge_zero", x, y, 0, FALSE)
    /\ UNCHANGED <<voi, disk, scan>>

NextMerge == Merge \/ MergeZero

SpecMerge == InitMerge /\ [][NextMerge]_vars

-----------------------------------------------------------------------------
(* The TRiP98 header and data files *)

\* One line of a header file: its first token, the token after it as text or as a
\* number (a float in units, an int as it is), and the count of its tokens.
Line(key, str, num, toks) == [key |-> key, str |-> str, num |-> num, toks |-> toks]

\* what "\n".split leaves after the last newline
EmptyLine == Line("", "", 0, 0)

\* the directives _parse_trip_header stores in the attributes modelled here
NumDirectives ==
    { "num_bytes", "slice_dimension", "pixel_size", "slice_distance", "slice_number",
      "xoffset", "yoffset", "zoffset", "dimx", "dimy", "dimz" }

StrDirectives == {"version", "data_type", "byte_order", "patient_name"}

\* keys of a header line that are no directive but begin with the name of one
PrefixedKeys == {<<"dimx", "dimx_extra">>, <<"version", "version_note">>}

\* re.match(directive, line): the line begins with the directive's name
Matches(directive, key) == key = directive \/ <<directive, key>> \in PrefixedKeys

\* the array flattened in (z, y, x) order, as tofile writes it
RECURSIVE Flatten(_)
Flatten(q) == IF q = <<>> THEN <<>> ELSE Head(q) \o Flatten(Tail(q))

\* np.reshape(flat, (dimz, dimy, dimx))
Reshape(flat, dimz, dimy, dimx) ==
    [z \in 1..dimz |-> [y \in 1..dimy |-> [x \in 1..dimx |->
        flat[((z - 1) * dimy + (y - 1)) * dimx + x]]]]

\* the size in bytes of the element a format string or numpy type stands for
ItemSize(code) ==
    CASE code \in {"b", "int8"} -> 1
      [] code \in {"h", "int16"} -> 2
      [] code \in {"i", "int32", "f", "float32"} -> 4
      [] OTHER -> 8

\* the format character of a numpy type
TypeCode(pydata_type) ==
    CASE pydata_type = "int8" -> "b"
      [] pydata_type = "int16" -> "h"
      [] pydata_type = "int32" -> "i"
      [] pydata_type = "float32" -> "f"
      [] OTHER -> "d"

\* the size bytes of the two's complement integer v, least significant first
IntBytes(v, size) == [k \in 1..size |-> (v \div (256 ^ (k - 1))) % 256]

\* the two's complement integer of the bytes bs, least significant first
RECURSIVE BytesInt(_)
BytesInt(bs) ==
    IF Len(bs) = 1 THEN (IF bs[1] >= 128 THEN bs[1] - 256 ELSE bs[1])
    ELSE bs[1] + 256 * BytesInt(Tail(bs))

Reverse(q) == [k \in 1..Len(q) |-> q[Len(q) + 1 - k]]

\* one element of an array of type code as tofile writes it in byte order `order`:
\* an integer in two's complement, a float as the bytes it was decoded from
EncodeItem(v, code, order) ==
    LET le == CASE code \in {"b", "h", "i"} /\ v \in Int -> IntBytes(v, ItemSize(code))
                [] code \in {"f", "d"} /\ v \notin Int /\ Len(v.bits) = ItemSize(code) -> v.bits
    IN  IF order = ">" THEN Reverse(le) ELSE le

\* one element as np.fromfile and np.frombuffer decode it from ItemSize(code) bytes
DecodeItem(bs, code, order) ==
    LET le == IF order = ">" THEN Reverse(bs) ELSE bs
    IN  IF code \in {"b", "h", "i"} THEN BytesInt(le) ELSE [bits |-> le]

\* the first n elements of type code in the bytes bs
DecodeItems(bs, n, code, order) ==
    [k \in 1..n |->
        DecodeItem(SubSeq(bs, (k - 1) * ItemSize(code) + 1, k * ItemSize(code)), code, order)]

\* Cube._write_trip_header: the lines written for cube c to the header named pname
\* (modality, created_by, creation_info and primary_view carry no geometry and are
\* left out, as are the DICOM comment lines)
write_trip_header(c, pname) ==
    << Line("version", c.version, 0, 2),
       Line("data_type", c.data_type, 0, 2),
       Line("num_bytes", "", c.num_bytes, 2),
       Line("byte_order", c.byte_order, 0, 2),
       Line("patient_name", pname, 0, 2),
       Line("slice_dimension", "", c.slice_dimension, 2),
       Line("pixel_size", "", Fmt(c.pixel_size, Q7), 2),
       Line("slice_distance", "", Fmt(c.slice_distance, Q7), 2),
       Line("slice_number", "", c.slice_number, 2),
       Line("xoffset", "", RoundDiv(c.xoffset, c.pixel_size), 2),
       Line("dimx", "", c.dimx, 2),
       Line("yoffset", "", RoundDiv(c.yoffset, c.pixel_size), 2),
       Line("dimy", "", c.dimy, 2),
       Line("zoffset", "", 0, 2),
       Line("dimz", "", c.dimz, 2) >>
    \o (IF c.z_table
        THEN <<Line("z_table", "yes", 0, 2), Line("slice_no", "position", 0, 4)>>
             \o [i \in 1..Len(c.slice_pos) |-> Line("row", "", Fmt(c.slice_pos[i], Q4), 4)]
        ELSE <<Line("z_table", "no", 0, 2)>>)
    \o <<EmptyLine>>

\* Cube._write_trip_data: the bytes of the array in the type self.pydata_type,
\* byte-swapped for "aix"; the data file of a write is not compressed
write_trip_data(c) ==
    [ bytes |-> Flatten([k \in 1..Len(Flatten(Flatten(c.cube))) |->
                     EncodeItem(Flatten(Flatten(c.cube))[k], TypeCode(c.pydata_type),
                                IF c.byte_order = "aix" THEN ">" ELSE "<")]),
      gz |-> FALSE ]

\* Cube.write with a basename: the cube after it (an empty patient name becomes
\* "Anonymous") and the two files
write(c, name) ==
    LET c1 == IF c.patient_name = "" THEN [c EXCEPT !.patient_name = "Anonymous"] ELSE c
    IN  [ cube |-> c1,
          file |-> [exists |-> TRUE, name |-> name,
                    header |-> write_trip_header(c1, name),
                    data |-> write_trip_data(c1)] ]

\* Cube._set_number_of_bytes: the cube, and whether IOError("Unsupported format.")
\* was raised
set_number_of_bytes(c) ==
    IF c.data_type = "integer" THEN
        [ err |-> FALSE,
          cube |-> CASE c.num_bytes = 1 ->
                          [c EXCEPT !.format_str = Append(@, "b"), !.pydata_type = "int8"]
                     [] c.num_bytes = 2 ->
                          [c EXCEPT !.format_str = Append(@, "h"), !.pydata_type = "int16"]
                     [] c.num_bytes = 4 ->
                          [c EXCEPT !.format_str = Append(@, "i"), !.pydata_type = "int32"]
                     [] OTHER -> c ]
    ELSE IF c.data_type \in {"float", "double"} THEN
        [ err |-> FALSE,
          cube |-> CASE c.num_bytes = 4 ->
                          [c EXCEPT !.format_str = Append(@, "f"), !.pydata_type = "float32"]
                     [] c.num_bytes = 8 ->
                          [c EXCEPT !.format_str = Append(@, "d"), !.pydata_type = "float64"]
                     [] OTHER -> c ]
    ELSE [err |-> TRUE, cube |-> c]

\* Cube._set_format_str
set_format_str(c) ==
    set_number_of_bytes(
        IF c.byte_order = "vms" THEN [c EXCEPT !.format_str = <<"<">>]
        ELSE IF c.byte_order = "aix" THEN [c EXCEPT !.format_str = <<">">>]
        ELSE c)

\* the "if re.match(directive, content[i])" statements of one header line; st holds
\* the cube, the directives seen so far and whether an exception was raised
apply_line(st, line) ==
    LET ds == {d \in NumDirectives \cup StrDirectives : Matches(d, line.key)}
    IN  IF ds = {} THEN st
        ELSE LET d == CHOOSE x \in ds : TRUE
             IN  IF line.toks < 2 THEN [st EXCEPT !.err = TRUE]
                 ELSE [st EXCEPT
                         !.seen = @ \cup {d},
                         !.cube = IF d = "slice_distance"
                                  THEN [@ EXCEPT !.slice_distance = line.num,
                                                 !.slice_thickness = line.num]
                                  ELSE IF d \in NumDirectives THEN [@ EXCEPT ![d] = line.num]
                                  ELSE [@ EXCEPT ![d] = line.str]]

\* a header line read as a row of the slice table: float(content[i].split()[1])
RowReadable(line) == line.toks >= 2 /\ (line.key = "row" \/ line.key \in NumDirectives)

\* the "while i < len(content)" loop of _parse_trip_header from line i on (1-based);
\* the state after a line is bound as a value before the rest of the loop uses it.
\* At "slice_no" the table is first filled with 0.0, 1.0, ... and then overwritten
\* row by row, so a row that cannot be read leaves the rows before it in place.
RECURSIVE parse_lines(_, _, _)
parse_lines(st, content, i) ==
    IF i > Len(content) THEN st
    ELSE CHOOSE r \in
           { IF s1.err THEN s1
             ELSE IF ~Matches("slice_no", content[i].key) THEN parse_lines(s1, content, i + 1)
             ELSE LET n == s1.cube.slice_number
                      bad == {j \in 1..n : i + j > Len(content) \/ ~RowReadable(content[i + j])}
                      first_bad == IF bad = {} THEN n + 1
                                   ELSE CHOOSE j \in bad : \A j2 \in bad : j <= j2
                      table == [s1 EXCEPT !.cube = [@ EXCEPT
                                   !.z_table = TRUE,
                                   !.slice_pos = [j \in 1..n |->
                                       IF j < first_bad THEN content[i + j].num
                                       ELSE (j - 1) * MM]]]
                  IN  IF n = Unset THEN [s1 EXCEPT !.err = TRUE]
                      ELSE IF bad # {} \/ i + n + 1 > Len(content)
                      THEN [table EXCEPT !.err = TRUE]
                      ELSE parse_lines(table, content, i + n + 2)
             : s1 \in {apply_line(st, content[i])} } : TRUE

\* Cube._parse_trip_header.  A size the header did not give is still the string "",
\* and Python repeats a string an integer number of times: an integer offset read
\* from the header times "" is "" again, while the float offset of a header that
\* gave none raises TypeError.  The statements after the loop run in order, so an
\* exception leaves the assignments before it in place.
parse_trip_header(c, content) ==
    CHOOSE res \in
      { LET p == st.cube
            fails(d, size) == d \notin st.seen /\ (size = Unset \/ p[d] = Unset)
            times(d, size) == IF size = Unset THEN Unset
                              ELSE IF d \in st.seen THEN p[d] * size
                              ELSE (p[d] * size) \div MM
            px == [p EXCEPT !.xoffset = times("xoffset", p.pixel_size)]
            py == [px EXCEPT !.yoffset = times("yoffset", p.pixel_size)]
            pz == [py EXCEPT !.zoffset = times("zoffset", p.slice_distance)]
        IN  IF st.err \/ fails("xoffset", p.pixel_size) THEN [err |-> TRUE, cube |-> p]
            ELSE IF fails("yoffset", p.pixel_size) THEN [err |-> TRUE, cube |-> px]
            ELSE IF fails("zoffset", p.slice_distance) THEN [err |-> TRUE, cube |-> py]
            ELSE IF p.z_table THEN set_format_str(pz)
            ELSE IF p.slice_number = Unset THEN [err |-> TRUE, cube |-> pz]
            ELSE set_format_str(
                     [pz EXCEPT !.slice_pos =
                         [i \in 1..p.slice_number |->
                             IF p.slice_distance = Unset THEN Unset
                             ELSE pz.zoffset + (i - 1) * p.slice_distance]])
        : st \in {parse_lines([cube |-> [c EXCEPT !.header_set = TRUE, !.z_table = FALSE],
                               seen |-> {}, err |-> FALSE], content, 1)} } : TRUE

\* Cube._read_trip_header_file
read_trip_header_file(c, file) ==
    CHOOSE res \in
      { IF parsed.err THEN parsed ELSE set_format_str(parsed.cube)
        : parsed \in {parse_trip_header(c, file.header)} } : TRUE

\* np.dtype(self.format_str) exists: a byte order and one element code
ValidFormat(f) == Len(f) = 2 /\ f[1] \in {"<", ">"} /\ f[2] \in {"b", "h", "i", "f", "d"}

\* Cube._read_trip_data_file: the cube after it and whether an exception was raised
\* (TypeError by np.dtype, ValueError by np.frombuffer, IOError by the sanity check)
read_trip_data_file(c, file) ==
    CHOOSE res \in
      { IF h.err \/ ~ValidFormat(h.cube.format_str) THEN [err |-> TRUE, cube |-> h.cube]
        ELSE LET d == h.cube
                 code == d.format_str[2]
                 data_count == d.dimx * d.dimy * d.dimz
                 \* gzip: f.read(itemsize * data_count), np.frombuffer(count=data_count);
                 \* plain: np.fromfile reads the whole elements the file holds
                 avail == Len(file.data.bytes) \div ItemSize(code)
                 n == IF file.data.gz THEN data_count ELSE avail
             IN  IF Unset \in {d.dimx, d.dimy, d.dimz} THEN [err |-> TRUE, cube |-> d]
                 ELSE IF file.data.gz /\ avail < data_count THEN [err |-> TRUE, cube |-> d]
                 ELSE IF n # data_count THEN [err |-> TRUE, cube |-> d]
                 ELSE [err |-> FALSE,
                       cube |-> [d EXCEPT !.cube =
                                    Reshape(DecodeItems(file.data.bytes, n, code, d.format_str[1]),
                                            d.dimz, d.dimy, d.dimx)]]
        : h \in {IF c.header_set THEN [err |-> FALSE, cube |-> c]
                 ELSE read_trip_header_file(c, file)} } : TRUE

\* Cube.read with a basename: the cube after it and whether it raised.  The file
\* locator finds the pair when it was written under that name.
read(c, name, file) ==
    IF ~file.exists \/ file.name # name THEN [err |-> TRUE, cube |-> [c EXCEPT !.basename = name]]
    ELSE CHOOSE res \in
           { IF h.err THEN h ELSE read_trip_data_file(h.cube, file)
             : h \in {read_trip_header_file([c EXCEPT !.basename = name], file)} } : TRUE

\* Cube.read with a (header, data) pair of paths, each of which exists or not
read_paths(c, header_exists, data_exists, file) ==
    IF ~header_exists \/ ~data_exists THEN [err |-> TRUE, cube |-> c]
    ELSE CHOOSE res \in
           { IF h.err THEN h ELSE read_trip_data_file(h.cube, file)
             : h \in {read_trip_header_file([c EXCEPT !.basename = ""], file)} } : TRUE

-----------------------------------------------------------------------------
(* Writing a created cube and reading it back: the specification SpecIO *)

PathNames == {"tst003", "Anonymous"}

CreateValues == {0, 7}

SliceOffsets == {0, 5 * MM}

InitIO ==
    /\ cubes = [id \in CubeIds |-> NewCube]
    /\ voi = NoVoi
    /\ disk = NoFile
    /\ scan = Idle
    /\ last = NoOp(cubes)

CreateEmptyCube ==
    /\ ~cubes["a"].header_set
    /\ \E value \in CreateValues, dimx \in 1..2, dimy \in 1..2, dimz \in 1..MaxDimZ,
          ps \in PixelSizes, sd \in SliceDistances, off \in SliceOffsets :
          /\ cubes' = [cubes EXCEPT
                           !["a"] = create_empty_cube(@, value, dimx, dimy, dimz, ps, sd, off)]
          /\ last' = Did("create_empty_cube", "a", "a", value, TRUE)
    /\ UNCHANGED <<voi, disk, scan>>

Write ==
    /\ cubes["a"].header_set
    /\ ~disk.exists
    /\ \E name \in PathNames :
          LET w == write(cubes["a"], name)
          IN  /\ cubes' = [cubes EXCEPT !["a"] = w.cube]
              /\ disk' = w.file
              /\ last' = Did("write", "a", "a", 0, TRUE)
    /\ UNCHANGED <<voi, scan>>

Read ==
    /\ last.op # "read"
    /\ \E name \in PathNames :
          LET r == read(cubes["b"], name, disk)
          IN  /\ cubes' = [cubes EXCEPT !["b"] = r.cube]
              /\ last' = Did("read", "b", "a", 0, ~r.err)
    /\ UNCHANGED <<voi, disk, scan>>

NextIO == CreateEmptyCube \/ Write \/ Read

SpecIO == InitIO /\ [][NextIO]_vars

-----------------------------------------------------------------------------
(* Reading header and data files of any content: the specification SpecRead *)

DataTypes == {"integer", "float", "double"}

NumBytes == {1, 2, 3, 4, 8}

ByteOrders == {"vms", "aix"}

\* the largest number of slices, and of table rows, a header of SpecRead declares
MaxSlices == 2

\* the lengths in bytes of the data files of SpecRead
DataLengths == {1, 2, 3, 4, 8, 16}

\* a data file of len bytes
DataFile(len, gz) == [bytes |-> [k \in 1..len |-> (77 * k) % 256], gz |-> gz]

\* a header file: the directives in the order _write_trip_header emits them, with
\* any values, and a slice table of `rows` rows when z_table
HeaderFile(dt, nb, bo, dimx, dimz, sn, zoff, z_table, rows) ==
    << Line("version", "1.4", 0, 2),
       Line("data_type", dt, 0, 2),
       Line("num_bytes", "", nb, 2),
       Line("byte_order", bo, 0, 2),
       Line("patient_name", "tst003", 0, 2),
       Line("slice_dimension", "", dimx, 2),
       Line("pixel_size", "", MM, 2),
       Line("slice_distance", "", 3 * MM, 2),
       Line("slice_number", "", sn, 2),
       Line("xoffset", "", 0, 2),
       Line("dimx", "", dimx, 2),
       Line("yoffset", "", 0, 2),
       Line("dimy", "", 1, 2),
       Line("zoffset", "", zoff, 2),
       Line("dimz", "", dimz, 2) >>
    \o (IF z_table
        THEN <<Line("z_table", "yes", 0, 2), Line("slice_no", "position", 0, 4)>>
             \o [i \in 1..rows |-> Line("row", "", (2 * i + 5) * MM, 4)]
        ELSE <<Line("z_table", "no", 0, 2)>>)
    \o <<EmptyLine>>

\* the cube read into: a new one, or one that holds a voxel already
ReadTargets == {NewCube, create_empty_cube(NewCube, 7, 1, 1, 1, MM, MM, 0)}

InitRead ==
    /\ \E dt \in DataTypes, nb \in NumBytes, bo \in ByteOrders, dimx \in 1..2,
          dimz \in 1..MaxSlices, sn \in 1..MaxSlices, zoff \in 0..1, z_table \in BOOLEAN,
          len \in DataLengths, gz \in BOOLEAN :
          disk = [exists |-> TRUE, name |-> "tst003",
                  header |-> HeaderFile(dt, nb, bo, dimx, dimz, sn, zoff, z_table, sn),
                  data |-> DataFile(len, gz)]
    /\ \E target \in ReadTargets : cubes = [a |-> NewCube, b |-> target]
    /\ voi = NoVoi
    /\ scan = Idle
    /\ last = NoOp(cubes)

\* b.read(name); the value recorded is 1 when the files of that name exist
ReadBasename ==
    /\ last.n < 1
    /\ \E name \in PathNames :
          LET r == read(cubes["b"], name, disk)
          IN  /\ cubes' = [cubes EXCEPT !["b"] = r.cube]
              /\ last' = Did("read", "b", "b", IF name = disk.name THEN 1 ELSE 0, ~r.err)
    /\ UNCHANGED <<voi, disk, scan>>

\* b.read((header_path, data_path)); the value recorded is 1 when both files exist
ReadPaths ==
    /\ last.n < 1
    /\ \E header_exists, data_exists \in BOOLEAN :
          LET r == read_paths(cubes["b"], header_exists, data_exists, disk)
          IN  /\ cubes' = [cubes EXCEPT !["b"] = r.cube]
              /\ last' = Did("read_paths", "b", "b",
                             IF header_exists /\ data_exists THEN 1 ELSE 0, ~r.err)
    /\ UNCHANGED <<voi, disk, scan>>

\* b._read_trip_header_file(header_path): the header is parsed and the format set up
ReadHeader ==
    /\ last.n < 1
    /\ LET r == read_trip_header_file(cubes["b"], disk)
       IN  /\ cubes' = [cubes EXCEPT !["b"] = r.cube]
           /\ last' = Did("read_header", "b", "b", 0, ~r.err)
    /\ UNCHANGED <<voi, disk, scan>>

NextRead == ReadBasename \/ ReadPaths \/ ReadHeader

SpecRead == InitRead /\ [][NextRead]_vars

-----------------------------------------------------------------------------
(* Copy construction and the arithmetic operators: the specification SpecArith *)

\* the cubes of SpecArith: the operands a and b and the cube c an operator returns
ArithIds == {"a", "b", "c"}

\* Cube.__init__ with a cube: the new cube, and whether an exception was raised
\* (IOError by _set_number_of_bytes, TypeError by np.zeros on dimensions not set)
copy_constructor(cube) ==
    CHOOSE res \in
      { IF f.err THEN f
        ELSE CHOOSE res2 \in
               { IF g.err \/ Unset \in {cube.dimx, cube.dimy, cube.dimz} THEN [err |-> TRUE, cube |-> g.cube]
                 ELSE [err |-> FALSE,
                       cube |-> [g.cube EXCEPT !.cube = Grid(cube.dimz, cube.dimy, cube.dimx, 0)]]
                 : g \in {set_number_of_bytes(f.cube)} } : TRUE
        : f \in {set_format_str([cube EXCEPT !.format_str = NewCube.format_str,
                                             !.pydata_type = NewCube.pydata_type,
                                             !.cube = NewCube.cube])} } : TRUE

RECURSIVE Gcd(_, _)
Gcd(m, n) == IF n = 0 THEN m ELSE Gcd(n, m % n)

\* the float64 quotient s / o of two int16 values as a fraction in lowest terms;
\* 0 / 0 is nan, written <<0, 0>>, and anything else over 0 is an infinity, written
\* <<1, 0>> or <<-1, 0>>
Quotient(s, o) ==
    IF o = 0 THEN (IF s = 0 THEN <<0, 0>> ELSE IF s > 0 THEN <<1, 0>> ELSE <<-1, 0>>)
    ELSE LET g == Gcd(Abs(s), Abs(o))
             sign == IF (s < 0) = (o < 0) THEN 1 ELSE -1
         IN  <<sign * (Abs(s) \div g), Abs(o) \div g>>

\* an elementwise numpy operation on two grids of one shape
add_arrays(g, h) ==
    [z \in 1..Len(g) |-> [y \in 1..Len(g[z]) |-> [x \in 1..Len(g[z][y]) |->
        Int16(g[z][y][x] + h[z][y][x])]]]

sub_arrays(g, h) ==
    [z \in 1..Len(g) |-> [y \in 1..Len(g[z]) |-> [x \in 1..Len(g[z][y]) |->
        Int16(g[z][y][x] - h[z][y][x])]]]

mul_arrays(g, h) ==
    [z \in 1..Len(g) |-> [y \in 1..Len(g[z]) |-> [x \in 1..Len(g[z][y]) |->
        Int16(g[z][y][x] * h[z][y][x])]]]

\* self.cube / other.cube followed by c.cube[np.isnan(c.cube)] = 0
div_arrays(g, h) ==
    [z \in 1..Len(g) |-> [y \in 1..Len(g[z]) |-> [x \in 1..Len(g[z][y]) |->
        IF Quotient(g[z][y][x], h[z][y][x]) = <<0, 0>> THEN <<0, 1>>
        ELSE Quotient(g[z][y][x], h[z][y][x])]]]

\* Cube.__add__, __sub__, __mul__ and __div__ of a DosCube with another one of the
\* same array shape: the cube returned and whether an exception was raised
add(self, other) ==
    CHOOSE res \in { IF c.err THEN c ELSE [c EXCEPT !.cube.cube = add_arrays(other.cube, self.cube)]
                     : c \in {copy_constructor(self)} } : TRUE

sub(self, other) ==
    CHOOSE res \in { IF c.err THEN c ELSE [c EXCEPT !.cube.cube = sub_arrays(self.cube, other.cube)]
                     : c \in {copy_constructor(self)} } : TRUE

mul(self, other) ==
    CHOOSE res \in { IF c.err THEN c ELSE [c EXCEPT !.cube.cube = mul_arrays(other.cube, self.cube)]
                     : c \in {copy_constructor(self)} } : TRUE

div(self, other) ==
    CHOOSE res \in { IF c.err THEN c ELSE [c EXCEPT !.cube.cube = div_arrays(self.cube, other.cube)]
                     : c \in {copy_constructor(self)} } : TRUE

ArithOps == {"add", "sub", "mul", "div"}

ArithPixelSizes == {MM, MM + 2 * Eps}

InitArith ==
    /\ \E n \in 1..MaxLen :
          \E va, vb \in [1..n -> MergeValues] :
              \E psa, psb \in ArithPixelSizes :
                  cubes = [a |-> RowCube(psa, va), b |-> RowCube(psb, vb), c |-> NewCube]
    /\ voi = NoVoi
    /\ disk = NoFile
    /\ scan = Idle
    /\ last = NoOp(cubes)

\* c = x <op> y
Arith ==
    /\ last.n < 1
    /\ \E x, y \in CubeIds, op \in ArithOps :
          LET r == CASE op = "add" -> add(cubes[x], cubes[y])
                     [] op = "sub" -> sub(cubes[x], cubes[y])
                     [] op = "mul" -> mul(cubes[x], cubes[y])
                     [] op = "div" -> div(cubes[x], cubes[y])
          IN  /\ cubes' = IF r.err THEN cubes ELSE [cubes EXCEPT !["c"] = r.cube]
              /\ last' = Did(op, x, y, 0, ~r.err)
    /\ UNCHANGED <<voi, disk, scan>>

NextArith == Arith \/ Merge \/ MergeZero

SpecArith == InitArith /\ [][NextArith]_vars

-----------------------------------------------------------------------------
(* Copy construction followed by changes of either cube: the specification SpecCopy *)

\* self.slice_pos[i] = v or self.slice_pos.append(v) changes the list object, and
\* with it the slice positions of every cube bound to that object
with_list(cs, id, positions) ==
    [y \in DOMAIN cs |->
        IF cs[y].slice_pos_id = cs[id].slice_pos_id THEN [cs[y] EXCEPT !.slice_pos = positions]
        ELSE cs[y]]

CopyPositions == {MM, 4 * MM}

InitCopy ==
    /\ \E dimx \in 1..2, dimz \in 1..MaxDimZ, value \in CreateValues :
          cubes = [a |-> [create_empty_cube(NewCube, value, dimx, 1, dimz, MM, 2 * MM, 0)
                             EXCEPT !.slice_pos_id = 1],
                   b |-> [create_empty_cube(NewCube, 0, 1, 1, 1, MM, 3 * MM, MM)
                             EXCEPT !.slice_pos_id = 2],
                   c |-> [NewCube EXCEPT !.slice_pos_id = 3]]
    /\ voi = NoVoi
    /\ disk = NoFile
    /\ scan = Idle
    /\ last = NoOp(cubes)

\* c = DosCube(x)
CopyConstruct ==
    /\ last.n < MaxOps
    /\ \E x \in CubeIds :
          LET r == copy_constructor(cubes[x])
          IN  /\ cubes' = IF r.err THEN cubes ELSE [cubes EXCEPT !["c"] = r.cube]
              /\ last' = Did("copy", "c", x, 0, ~r.err)
    /\ UNCHANGED <<voi, disk, scan>>

\* x.slice_pos[i] = v
SetSlicePos ==
    /\ last.n < MaxOps
    /\ \E x \in ArithIds, v \in CopyPositions :
          \E i \in 1..Len(cubes[x].slice_pos) :
              /\ cubes' = with_list(cubes, x, [cubes[x].slice_pos EXCEPT ![i] = v])
              /\ last' = Did("set_slice_pos", x, x, v, TRUE)
    /\ UNCHANGED <<voi, disk, scan>>

\* x.slice_pos.append(v)
AppendSlicePos ==
    /\ last.n < MaxOps
    /\ \E x \in ArithIds, v \in CopyPositions :
          /\ Len(cubes[x].slice_pos) <= MaxDimZ
          /\ cubes' = with_list(cubes, x, Append(cubes[x].slice_pos, v))
          /\ last' = Did("append_slice_pos", x, x, v, TRUE)
    /\ UNCHANGED <<voi, disk, scan>>

\* x.pixel_size = v, x.slice_distance = v
SetGeometry ==
    /\ last.n < MaxOps
    /\ \E x \in ArithIds, v \in CopyPositions, field \in {"pixel_size", "slice_distance"} :
          /\ cubes' = [cubes EXCEPT ![x][field] = v]
          /\ last' = Did("set_geometry", x, x, v, TRUE)
    /\ UNCHANGED <<voi, disk, scan>>

\* x.cube[i_z, i_y, i_x] = v
SetVoxel ==
    /\ last.n < MaxOps
    /\ \E x \in ArithIds, v \in MaskValues :
          \E i_z \in 1..Len(cubes[x].cube) :
              \E i_x \in 1..Len(cubes[x].cube[i_z][1]) :
                  /\ cubes' = [cubes EXCEPT ![x].cube[i_z][1][i_x] = v]
                  /\ last' = Did("set_voxel", x, x, v, TRUE)
    /\ UNCHANGED <<voi, disk, scan>>

NextCopy == CopyConstruct \/ SetSlicePos \/ AppendSlicePos \/ SetGeometry \/ SetVoxel

SpecCopy == InitCopy /\ [][NextCopy]_vars

-----------------------------------------------------------------------------
(* The dose-volume histogram of a dose cube: the specification SpecDvh *)

\* the number of bins of the histogram: relative doses 0 .. maximum_dose - 1
maximum_dose == 1500

\* the relative dose that stands for the target dose
TargetDose == 1000

RECURSIVE SumOver(_, _)
SumOver(f, S) ==
    IF S = {} THEN 0
    ELSE LET x == CHOOSE y \in S : TRUE IN f[x] + SumOver(f, S \ {x})

\* the float n / d as a fraction in lowest terms; <<0, 0>> is nan
Frac(n, d) == IF d = 0 THEN <<0, 0>> ELSE <<n \div Gcd(n, d), d \div Gcd(n, d)>>

\* Voi.get_slice_at_pos: the region's slice at z, holding the voxels <<x, y>> (1-based)
\* inside its contour, or no slice
NoSlice == [none |-> TRUE, inside |-> {}]

get_slice_at_pos(v, z) ==
    IF z \in v.slices THEN [none |-> FALSE, inside |-> v.inside] ELSE NoSlice

\* pytriplib.calculate_dvh_slice: one count per voxel of the plane inside the
\* contour, in the bin of the voxel's dose
calculate_dvh_slice(plane, inside, dose) ==
    Cardinality({p \in inside : /\ p[2] \in 1..Len(plane)
                                /\ p[1] \in 1..Len(plane[p[2]])
                                /\ plane[p[2]][p[1]] = dose})

\* the doses, and so the bins, that occur in the cube
Doses(c) == {c.cube[z][y][x] : z \in 1..c.dimz, y \in 1..c.dimy, x \in 1..c.dimx}

\* DosCube.calculate_dvh: None, IndexError raised, or the histogram with
\* (min_dose, max_dose, mean_dose, mean_volume) as fractions; dvh_y is the operator
\* below applied to dose_bins.  The i-th slice is looked up at z_pos = i * slice_distance;
\* z_queried is the list of these lookups.
\* Sizes are whole millimetres, so that the volume is a whole number of mm^3.
calculate_dvh(c, v) ==
    LET hits == {i \in 1..c.dimz : ~get_slice_at_pos(v, i * c.slice_distance).none}
        dose_bins == [d \in Doses(c) |->
                        SumOver([i \in hits |->
                                    calculate_dvh_slice(c.cube[i],
                                        get_slice_at_pos(v, i * c.slice_distance).inside, d)],
                                hits)]
        sum_of_doses == SumOver(dose_bins, DOMAIN dose_bins)
        cum(j) == SumOver(dose_bins, {d \in DOMAIN dose_bins : d >= j})
        bins == 0..(maximum_dose - 1)
        \* np.where(dvh_y >= 0.98)[0] and np.where(dvh_y <= 0.02)[0]; a comparison
        \* with nan (0 / 0) is false
        high == {j \in bins : sum_of_doses # 0 /\ 100 * cum(j) >= 98 * sum_of_doses}
        low == {j \in bins : sum_of_doses # 0 /\ 100 * cum(j) <= 2 * sum_of_doses}
        voxel_volume == (c.pixel_size \div MM) * (c.pixel_size \div MM) * (c.slice_distance \div MM)
        failed == [none |-> FALSE, raised |-> TRUE, dose_bins |-> dose_bins,
                  sum_of_doses |-> sum_of_doses,
                  z_queried |-> [i \in 1..c.dimz |-> i * c.slice_distance],
                  min_dose |-> <<0, 1>>, max_dose |-> <<0, 1>>, mean_dose |-> <<0, 1>>,
                  mean_volume |-> <<0, 1>>]
    IN  IF hits = {} THEN [failed EXCEPT !.none = TRUE, !.raised = FALSE]
        ELSE IF high = {} \/ low = {} THEN failed
        ELSE [failed EXCEPT
                !.raised = FALSE,
                !.min_dose = Frac(CHOOSE j \in high : \A j2 \in high : j2 <= j, TargetDose),
                !.max_dose = Frac(CHOOSE j \in low : \A j2 \in low : j <= j2, TargetDose),
                !.mean_dose = Frac(SumOver([d \in DOMAIN dose_bins |-> dose_bins[d] * d],
                                           DOMAIN dose_bins),
                                   sum_of_doses * TargetDose),
                !.mean_volume = Frac(sum_of_doses * voxel_volume, TargetDose)]

\* dvh_y[j] of a result: np.cumsum(dose_bins[::-1])[::-1] / sum_of_doses
dvh_y(result, j) ==
    Frac(SumOver(result.dose_bins, {d \in DOMAIN result.dose_bins : d >= j}), result.sum_of_doses)

DvhDoses == {0, 500, 1499}

\* the voxels <<x, y>> of a plane of cube c
Plane(c) == (1..c.dimx) \X (1..c.dimy)

\* regions with a slice at some of the depths 0, slice_distance, 2 * slice_distance, ...
\* that hold all, one or none of the voxels of a plane
DvhVois(c) ==
    { [slices |-> zs, inside |-> inside] :
        zs \in SUBSET {i * c.slice_distance : i \in 0..(MaxDimZ + 1)},
        inside \in {Plane(c), {<<1, 1>>}, {}} }

InitDvh ==
    /\ \E d \in DvhDoses, dimx \in 1..2, dimz \in 1..MaxDimZ, off \in 0..1 :
          /\ cubes = [a |-> create_empty_cube(NewCube, d, dimx, 1, dimz, MM, 2 * MM, off * 2 * MM),
                      b |-> NewCube]
          /\ voi \in DvhVois(cubes["a"])
    /\ disk = NoFile
    /\ scan = Idle
    /\ last = NoOp(cubes)

\* a.calculate_dvh(voi)
CalculateDvh ==
    /\ last.n < 1
    /\ last' = Did("calculate_dvh", "a", "a", 0, calculate_dvh(cubes["a"], voi))
    /\ UNCHANGED <<cubes, voi, disk, scan>>

NextDvh == CalculateDvh

SpecDvh == InitDvh /\ [][NextDvh]_vars

-----------------------------------------------------------------------------
(* A masking pass row by row: the specification SpecPass.  scan holds the    *)
(* position of the two outer loops, the rows queried so far in order         *)
(* (<<i_y, i_z, z>>, z as handed to the region, in half units), the voxels    *)
(* written so far, and for mask_by_voi_all the local array "data".            *)

\* the inner "for i_x" loop on one row: the row after the effect on the columns cols
row_effect(row, cols, op, value) ==
    [x \in 1..Len(row) |->
        IF (x - 1) \in cols
        THEN IF op = "mask_by_voi_add" THEN Int16(row[x] + value) ELSE Int16(value)
        ELSE row[x]]

PassOps == {"mask_by_voi", "mask_by_voi_add", "mask_by_voi_all"}

InitPass ==
    /\ \E fill \in FillValues :
          cubes = [a |-> create_empty_cube(NewCube, fill, MaxDimX, MaxDimY, MaxDimZ,
                                           MM, 2 * MM, 5 * MM),
                   b |-> NewCube]
    /\ voi \in MaskVois(cubes["a"])
    /\ disk = NoFile
    /\ scan = [op |-> "none", value |-> 0, i_z |-> 0, i_y |-> 0, queried |-> <<>>,
               written |-> {}, data |-> <<>>, pc |-> "idle"]
    /\ last = NoOp(cubes)

\* the call: mask_by_voi_all allocates data and skips the loops when preset is 0
StartPass ==
    /\ scan.pc = "idle"
    /\ \E op \in PassOps, value \in MaskValues \cup {0} :
          LET c == cubes["a"]
              zeros == Grid(c.dimz, c.dimy, c.dimx, 0)
          IN  /\ IF op = "mask_by_voi_all" /\ value = 0
                 THEN /\ cubes' = [cubes EXCEPT !["a"].cube = zeros]
                      /\ scan' = [scan EXCEPT !.op = op, !.value = value, !.data = zeros,
                                              !.pc = "done"]
                 ELSE /\ cubes' = cubes
                      /\ scan' = [scan EXCEPT
                                    !.op = op, !.value = value,
                                    !.data = IF op = "mask_by_voi_all" THEN zeros ELSE c.cube,
                                    !.pc = "row"]
              /\ last' = Did(op, "a", "a", value, FALSE)
    /\ UNCHANGED <<voi, disk>>

\* the position after row i_y of slice i_z, left by break (to_next_slice) or normally
after_row(c, i_y, i_z, to_next_slice) ==
    IF to_next_slice \/ i_y + 1 >= c.dimy THEN <<0, i_z + 1>> ELSE <<i_y + 1, i_z>>

\* PassRow with "return" for "break" on a row without data
PassRow_return ==
    /\ scan.pc = "row"
    /\ LET c == cubes["a"]
           i_y == scan.i_y
           i_z == scan.i_z
           pos == indices_to_pos(c, <<0, i_y, i_z>>)
           inter == get_row_intersections(voi, pos)
           cols == IF ~inter.none /\ Len(inter.xs) > 0
                   THEN scan_row(c, inter.xs, 0, 0, {}) ELSE {}
           data == [scan.data EXCEPT ![i_z + 1][i_y + 1] =
                        row_effect(@, cols, scan.op, scan.value)]
           next == after_row(c, i_y, i_z, inter.none)
           finished == inter.none \/ next[2] >= c.dimz
       IN  /\ scan' = [scan EXCEPT
                          !.queried = Append(@, <<i_y, i_z, pos[3]>>),
                          !.written = @ \cup {<<x, i_y, i_z>> : x \in cols},
                          !.data = data,
                          !.i_y = next[1],
                          !.i_z = next[2],
                          !.pc = IF finished THEN "done" ELSE "row"]
           /\ cubes' = IF scan.op = "mask_by_voi_all" /\ ~finished THEN cubes
                       ELSE [cubes EXCEPT !["a"].cube = data]
    /\ UNCHANGED <<voi, disk, last>>

\* one iteration of "for i_y in range(self.dimy)": the query, the break when the
\* region has no data, else the scan of the row; mask_by_voi and mask_by_voi_add
\* work on self.cube, mask_by_voi_all on data, which becomes self.cube at the end
PassRow ==
    /\ scan.pc = "row"
    /\ LET c == cubes["a"]
           i_y == scan.i_y
           i_z == scan.i_z
           pos == indices_to_pos(c, <<0, i_y, i_z>>)
           inter == get_row_intersections(voi, pos)
           cols == IF ~inter.none /\ Len(inter.xs) > 0
                   THEN scan_row(c, inter.xs, 0, 0, {}) ELSE {}
           data == [scan.data EXCEPT ![i_z + 1][i_y + 1] =
                        row_effect(@, cols, scan.op, scan.value)]
           next == after_row(c, i_y, i_z, inter.none)
           finished == next[2] >= c.dimz
       IN  /\ scan' = [scan EXCEPT
                          !.queried = Append(@, <<i_y, i_z, pos[3]>>),
                          !.written = @ \cup {<<x, i_y, i_z>> : x \in cols},
                          !.data = data,
                          !.i_y = next[1],
                          !.i_z = next[2],
                          !.pc = IF finished THEN "done" ELSE "row"]
           /\ cubes' = IF scan.op = "mask_by_voi_all" /\ ~finished THEN cubes
                       ELSE [cubes EXCEPT !["a"].cube = data]
    /\ UNCHANGED <<voi, disk, last>>

NextPass == StartPass \/ PassRow

SpecPass == InitPass /\ [][NextPass]_vars

-----------------------------------------------------------------------------
(* slice_to_z on cubes that were created, parsed from a header or neither:    *)
(* the specification SpecSlice                                                *)

\* list[i] of Python: an index below 0 counts from the end, and an index outside
\* -len(list) .. len(list) - 1 raises IndexError
PyIndex_no_wrap(list, i) ==
    IF 0 <= i /\ i < Len(list) THEN [raised |-> FALSE, value |-> list[i + 1]]
    ELSE [raised |-> TRUE, value |-> 0]

PyIndex(list, i) ==
    IF 0 <= i /\ i < Len(list) THEN [raised |-> FALSE, value |-> list[i + 1]]
    ELSE IF 0 - Len(list) <= i /\ i < 0 THEN [raised |-> FALSE, value |-> list[Len(list) + i + 1]]
    ELSE [raised |-> TRUE, value |-> 0]

\* Cube.slice_to_z
slice_to_z(c, slice_number) == PyIndex(c.slice_pos, slice_number - 1)

\* the slice numbers asked for
SliceNumbers == (0 - MaxDimZ - 2)..(MaxDimZ + 2)

\* cubes from create_empty_cube, cubes whose header was parsed (with a slice table of
\* slice_number rows), and a cube that was neither created nor read
SliceCubes ==
    { create_empty_cube(NewCube, 0, 1, 1, dimz, MM, sd, off) :
        dimz \in 1..(MaxDimZ + 1), sd \in {MM, 3 * MM}, off \in {0, 5 * MM} }
    \cup
    { read_trip_header_file(NewCube,
          [header |-> HeaderFile("integer", 2, "vms", 1, dimz, sn, zoff, z_table, sn)]).cube :
        dimz \in 1..MaxSlices, sn \in 1..MaxSlices, zoff \in 0..1, z_table \in BOOLEAN }
    \cup {NewCube}

InitSlice ==
    /\ \E c \in SliceCubes : cubes = [a |-> c, b |-> NewCube]
    /\ voi = NoVoi
    /\ disk = NoFile
    /\ scan = Idle
    /\ last = NoOp(cubes)

\* a.slice_to_z(n)
SliceToZ ==
    /\ last.n < MaxOps
    /\ \E n \in SliceNumbers :
          last' = Did("slice_to_z", "a", "a", n, slice_to_z(cubes["a"], n))
    /\ UNCHANGED <<cubes, voi, disk, scan>>

NextSlice == SliceToZ

SpecSlice == InitSlice /\ [][NextSlice]_vars

-----------------------------------------------------------------------------
(* The operations that need metadata, called on any cube, one that was       *)
(* neither read nor created included: the specification SpecCall.  A call    *)
(* answers the exception it ends with ("none" when it returns) and the cube   *)
(* it leaves.  A numeric attribute still at "" makes range(), np.zeros() and  *)
(* the float arithmetic raise TypeError, "{:d}".format() raise ValueError.    *)

Returned(c) == [error |-> "none", cube |-> c]
Raised(e, c) == [error |-> e, cube |-> c]

\* Cube.write: the patient name is defaulted before the first numeric attribute is
\* formatted
call_write(c, name) ==
    LET c1 == IF c.patient_name = "" THEN [c EXCEPT !.patient_name = "Anonymous"] ELSE c
    IN  IF Unset \in {c.slice_dimension, c.pixel_size, c.slice_distance, c.dimx, c.dimy}
        THEN Raised("ValueError", c1)
        ELSE Returned(write(c, name).cube)

\* Cube.mask_by_voi, mask_by_voi_add, mask_by_voi_all
call_mask(c, op, v, value) ==
    IF Unset \in {c.dimz, c.dimy, c.dimx} THEN Raised("TypeError", c)
    ELSE Returned(IF op = "mask_by_voi" THEN mask_by_voi(c, v, value)
                  ELSE IF op = "mask_by_voi_add" THEN mask_by_voi_add(c, v, value)
                  ELSE mask_by_voi_all(c, v, value))

\* Cube.indices_to_pos
call_indices_to_pos(c, indices) ==
    IF c.pixel_size = Unset THEN Raised("TypeError", c)
    ELSE IF PyIndex(c.slice_pos, indices[3]).raised THEN Raised("IndexError", c)
    ELSE Returned(c)

\* Cube.slice_to_z
call_slice_to_z(c, n) ==
    IF slice_to_z(c, n).raised THEN Raised("IndexError", c) ELSE Returned(c)

\* DosCube.create_dicom, Cube.create_dicom_base: InputError("Header not loaded")
call_create_dicom(c) ==
    IF ~c.header_set THEN Raised("InputError", c) ELSE Returned(c)

CallCubes ==
    { NewCube,
      create_empty_cube(NewCube, 0, MaxDimX, MaxDimY, MaxDimZ, MM, 2 * MM, 5 * MM),
      create_empty_cube(NewCube, 5, 1, 1, 1, MM, MM, 0) }

InitCall ==
    /\ \E c \in CallCubes : cubes = [a |-> c, b |-> NewCube]
    /\ voi \in MaskVois(create_empty_cube(NewCube, 0, MaxDimX, MaxDimY, MaxDimZ, MM, 2 * MM, 5 * MM))
    /\ disk = NoFile
    /\ scan = Idle
    /\ last = NoOp(cubes)

CallWrite ==
    /\ last.n < 1
    /\ \E name \in PathNames :
          LET r == call_write(cubes["a"], name)
          IN  /\ cubes' = [cubes EXCEPT !["a"] = r.cube]
              /\ disk' = IF r.error = "none" THEN write(cubes["a"], name).file ELSE disk
              /\ last' = Did("write", "a", "a", 0, r.error)
    /\ UNCHANGED <<voi, scan>>

CallMask ==
    /\ last.n < 1
    /\ \E op \in PassOps, value \in MaskValues :
          LET r == call_mask(cubes["a"], op, voi, value)
          IN  /\ cubes' = [cubes EXCEPT !["a"] = r.cube]
              /\ last' = Did(op, "a", "a", value, r.error)
    /\ UNCHANGED <<voi, disk, scan>>

CallIndicesToPos ==
    /\ last.n < 1
    /\ \E i \in 0..1, j \in 0..1, k \in 0..MaxDimZ :
          LET r == call_indices_to_pos(cubes["a"], <<i, j, k>>)
          IN  /\ cubes' = [cubes EXCEPT !["a"] = r.cube]
              /\ last' = Did("indices_to_pos", "a", "a", k, r.error)
    /\ UNCHANGED <<voi, disk, scan>>

CallSliceToZ ==
    /\ last.n < 1
    /\ \E n \in SliceNumbers :
          LET r == call_slice_to_z(cubes["a"], n)
          IN  /\ cubes' = [cubes EXCEPT !["a"] = r.cube]
              /\ last' = Did("slice_to_z", "a", "a", n, r.error)
    /\ UNCHANGED <<voi, disk, scan>>

CallCreateDicom ==
    /\ last.n < 1
    /\ LET r == call_create_dicom(cubes["a"])
       IN  /\ cubes' = [cubes EXCEPT !["a"] = r.cube]
           /\ last' = Did("create_dicom", "a", "a", 0, r.error)
    /\ UNCHANGED <<voi, disk, scan>>

NextCall == CallWrite \/ CallMask \/ CallIndicesToPos \/ CallSliceToZ \/ CallCreateDicom

SpecCall == InitCall /\ [][NextCall]_vars

-----------------------------------------------------------------------------
(* Parsing headers whose directives come in several orders, with and without *)
(* a line that is no directive: the specification SpecParse.  disk.given     *)
(* holds the values the header was written from, disk.plain the header       *)
(* without the added line.                                                    *)

\* the order _write_trip_header emits, the offsets ahead of the sizes they are scaled
\* by, and the slice table ahead of the offsets; "table" stands for the z_table line
\* and the slice table
HeaderLayouts ==
    { << "version", "data_type", "num_bytes", "byte_order", "patient_name",
         "slice_dimension", "pixel_size", "slice_distance", "slice_number", "xoffset",
         "dimx", "yoffset", "dimy", "zoffset", "dimz", "table" >>,
      << "version", "data_type", "num_bytes", "byte_order", "patient_name",
         "xoffset", "yoffset", "zoffset", "slice_dimension", "pixel_size",
         "slice_distance", "slice_number", "dimx", "dimy", "dimz", "table" >>,
      << "version", "data_type", "num_bytes", "byte_order", "patient_name",
         "slice_dimension", "pixel_size", "slice_distance", "slice_number",
         "dimx", "dimy", "dimz", "table", "xoffset", "yoffset", "zoffset" >> }

\* the slice positions authored in a slice table
AuthoredPosition(i) == (2 * i + 5) * MM

\* the header line of the directive key, for the values g
DirectiveLine(key, g) ==
    CASE key = "version" -> Line(key, "1.4", 0, 2)
      [] key = "data_type" -> Line(key, "integer", 0, 2)
      [] key = "num_bytes" -> Line(key, "", 2, 2)
      [] key = "byte_order" -> Line(key, "vms", 0, 2)
      [] key = "patient_name" -> Line(key, "tst003", 0, 2)
      [] key = "slice_dimension" -> Line(key, "", 1, 2)
      [] key = "pixel_size" -> Line(key, "", g.pixel_size, 2)
      [] key = "slice_distance" -> Line(key, "", g.slice_distance, 2)
      [] key = "slice_number" -> Line(key, "", g.slice_number, 2)
      [] key = "xoffset" -> Line(key, "", g.xoffset, 2)
      [] key = "yoffset" -> Line(key, "", g.yoffset, 2)
      [] key = "zoffset" -> Line(key, "", g.zoffset, 2)
      [] key = "dimx" -> Line(key, "", 1, 2)
      [] key = "dimy" -> Line(key, "", 1, 2)
      [] key = "dimz" -> Line(key, "", g.dimz, 2)

\* the z_table line and, when there is a table, its dimz rows
TableLines(g) ==
    IF g.z_table
    THEN <<Line("z_table", "yes", 0, 2), Line("slice_no", "position", 0, 4)>>
         \o [i \in 1..g.dimz |-> Line("row", "", AuthoredPosition(i), 4)]
    ELSE <<Line("z_table", "no", 0, 2)>>

LayoutHeader(layout, g) ==
    Flatten([i \in 1..Len(layout) |->
                IF layout[i] = "table" THEN TableLines(g)
                ELSE <<DirectiveLine(layout[i], g)>>])
    \o <<EmptyLine>>

\* lines that are no directive: a key of its own, and keys that begin with the name
\* of a directive
ExtraLines ==
    { Line("comment", "x", 0, 2), Line("dimx_extra", "", 7, 2), Line("version_note", "x", 0, 2) }

\* the places where a line can be added to a header: before the first line (0) or
\* after line `at`, but not within the slice table
InsertPlaces(content) ==
    {at \in 0..(Len(content) - 1) :
        at = 0 \/ ~(content[at].key \in {"slice_no", "row"} /\ content[at + 1].key = "row")}

InsertAt(content, at, line) ==
    SubSeq(content, 1, at) \o <<line>> \o SubSeq(content, at + 1, Len(content))

GivenValues ==
    [ pixel_size : {MM}, slice_distance : {3 * MM}, slice_number : 1..MaxSlices,
      dimz : 1..MaxSlices, xoffset : {0, 3}, yoffset : {2}, zoffset : {0, 1},
      z_table : BOOLEAN ]

InitParse ==
    /\ \E g \in GivenValues, layout \in HeaderLayouts :
          LET plain == LayoutHeader(layout, g)
          IN  \/ disk = [exists |-> TRUE, name |-> "tst003", given |-> g, plain |-> plain,
                         header |-> plain, added |-> FALSE]
              \/ \E line \in ExtraLines, at \in InsertPlaces(plain) :
                    disk = [exists |-> TRUE, name |-> "tst003", given |-> g, plain |-> plain,
                            header |-> InsertAt(plain, at, line), added |-> TRUE]
    /\ cubes = [a |-> NewCube, b |-> NewCube]
    /\ voi = NoVoi
    /\ scan = Idle
    /\ last = NoOp(cubes)

\* b._read_trip_header_file(header_path), also into a cube that was read before
ParseHeader ==
    /\ last.n < MaxOps
    /\ LET r == read_trip_header_file(cubes["b"], disk)
       IN  /\ cubes' = [cubes EXCEPT !["b"] = r.cube]
           /\ last' = Did("read_header", "b", "b", 0, ~r.err)
    /\ UNCHANGED <<voi, disk, scan>>

NextParse == ParseHeader

SpecParse == InitParse /\ [][NextParse]_vars

-----------------------------------------------------------------------------
(* The slices of a mask_by_voi or mask_by_voi_add pass handed to one worker  *)
(* each, the workers' row iterations interleaved in any order: the            *)
(* specification SpecWorkers.  scan.i_y[z] is the row worker z comes to next  *)
(* (dimy when it has left its loop), scan.order the workers in the order of   *)
(* their steps, scan.written the pairs <<worker, voxel>> of the writes; the   *)
(* voxels mask_by_voi_add reads are the ones it writes.                       *)

WorkerOps == {"mask_by_voi", "mask_by_voi_add"}

InitWorkers ==
    /\ \E fill \in FillValues :
          cubes = [a |-> create_empty_cube(NewCube, fill, MaxDimX, MaxDimY, MaxDimZ,
                                           MM, 2 * MM, 5 * MM),
                   b |-> NewCube]
    /\ voi \in MaskVois(cubes["a"])
    /\ disk = NoFile
    /\ scan = [op |-> "none", value |-> 0, i_y |-> <<>>, order |-> <<>>, written |-> {},
               pc |-> "idle"]
    /\ last = NoOp(cubes)

\* the call: one worker per slice, each at row 0
StartWorkers ==
    /\ scan.pc = "idle"
    /\ \E op \in WorkerOps, value \in MaskValues :
          /\ scan' = [scan EXCEPT !.op = op, !.value = value,
                                  !.i_y = [z \in 0..(cubes["a"].dimz - 1) |-> 0],
                                  !.pc = "run"]
          /\ last' = Did(op, "a", "a", value, FALSE)
    /\ UNCHANGED <<cubes, voi, disk>>

\* WorkerRow with every worker writing to the slice of index 0
WorkerRow_first_slice ==
    /\ scan.pc = "run"
    /\ \E i_z \in DOMAIN scan.i_y :
          LET c == cubes["a"]
              i_y == scan.i_y[i_z]
              inter == get_row_intersections(voi, indices_to_pos(c, <<0, i_y, i_z>>))
              cols == IF ~inter.none /\ Len(inter.xs) > 0
                      THEN scan_row(c, inter.xs, 0, 0, {}) ELSE {}
              rows == [scan.i_y EXCEPT ![i_z] = IF inter.none THEN c.dimy ELSE i_y + 1]
          IN  /\ i_y < c.dimy
              /\ cubes' = [cubes EXCEPT !["a"].cube[1][i_y + 1] =
                              row_effect(@, cols, scan.op, scan.value)]
              /\ scan' = [scan EXCEPT
                             !.i_y = rows,
                             !.order = Append(@, i_z),
                             !.written = @ \cup {<<i_z, <<x, i_y, 0>>>> : x \in cols},
                             !.pc = IF \A z \in DOMAIN rows : rows[z] >= c.dimy
                                    THEN "done" ELSE "run"]
    /\ UNCHANGED <<voi, disk, last>>

\* one iteration of "for i_y in range(self.dimy)" by the worker of slice i_z: the
\* query, the break, or the scan of the row with its writes to self.cube[i_z][i_y]
WorkerRow ==
    /\ scan.pc = "run"
    /\ \E i_z \in DOMAIN scan.i_y :
          LET c == cubes["a"]
              i_y == scan.i_y[i_z]
              inter == get_row_intersections(voi, indices_to_pos(c, <<0, i_y, i_z>>))
              cols == IF ~inter.none /\ Len(inter.xs) > 0
                      THEN scan_row(c, inter.xs, 0, 0, {}) ELSE {}
              rows == [scan.i_y EXCEPT ![i_z] = IF inter.none THEN c.dimy ELSE i_y + 1]
          IN  /\ i_y < c.dimy
              /\ cubes' = [cubes EXCEPT !["a"].cube[i_z + 1][i_y + 1] =
                              row_effect(@, cols, scan.op, scan.value)]
              /\ scan' = [scan EXCEPT
                             !.i_y = rows,
                             !.order = Append(@, i_z),
                             !.written = @ \cup {<<i_z, <<x, i_y, i_z>>>> : x \in cols},
                             !.pc = IF \A z \in DOMAIN rows : rows[z] >= c.dimy
                                    THEN "done" ELSE "run"]
    /\ UNCHANGED <<voi, disk, last>>

NextWorkers == StartWorkers \/ WorkerRow

SpecWorkers == InitWorkers /\ [][NextWorkers]_vars

-----------------------------------------------------------------------------
(* Properties *)

\* the cube the last operation acted on, before and after it
Before == last.pre[last.id]
After == cubes[last.id]

\* the voxels <<i_x, i_y, i_z>> (0-based) of the grid g
Voxels(g) ==
    {<<x - 1, y - 1, z - 1>> : x \in 1..Len(g[1][1]), y \in 1..Len(g[1]), z \in 1..Len(g)}

At(g, p) == g[p[3] + 1][p[2] + 1][p[1] + 1]

\* the voxels the last masking operation marked: those it changed (add), those that
\* hold the preset (all), those that hold the value when none did before (set)
Marked ==
    {p \in Voxels(After.cube) :
        CASE last.op = "mask_by_voi_add" -> At(After.cube, p) # At(Before.cube, p)
          [] last.op = "mask_by_voi_all" -> last.value # 0 /\ At(After.cube, p) = last.value
          [] last.op = "mask_by_voi"     -> At(After.cube, p) = last.value
          [] OTHER -> FALSE}

FirstMask ==
    /\ last.op \in {"mask_by_voi", "mask_by_voi_add", "mask_by_voi_all"}
    /\ last.n = 1
    /\ last.op = "mask_by_voi_all" => last.value # 0

\* the rows (0-based) of cube c the region v crosses
CoveredRows(c, v) ==
    {j \in 0..(c.dimy - 1) : Len(row_intersection(c, v, j, 0).xs) > 0}

\* C2 as stated: on the 10 x 10 x 1 cube with the square region crossing the rows
\* j in [2, 7), a masking operation marks exactly the voxels with indices i, j in [2, 7).
C2_SquareBlockAsStated ==
    (FirstMask /\ CoveredRows(After, voi) = 2..6) =>
        Marked = {<<i, j, 0>> : i \in 2..6, j \in 2..6}

\* C2 amended: on the 10 x 10 x 1 cube with the square region a masking operation
\* marks, on every row the region crosses, exactly the five voxels with column
\* index i in [3, 8), and no other voxel: the voxel whose centre lies on the crossing
\* at 2.5 mm is outside, the one whose centre lies on the crossing at 7.5 mm inside.
C2_SquareBlock ==
    FirstMask => Marked = {<<i, j, 0>> : i \in 3..7, j \in CoveredRows(After, voi)}

C2_Witness ==
    /\ FirstMask
    /\ last.op = "mask_by_voi"
    /\ CoveredRows(After, voi) = 2..6
    /\ Cardinality(Marked) = 25

\* C1, in the case most favourable to it (the files are named after the patient and
\* the pixel size and slice distance have no more than seven decimals): a cube built
\* with create_empty_cube, written and read into a fresh cube gives a cube with the
\* same dimensions, pixel size, slice distance, slice positions, x and y offsets,
\* data type, byte count, byte order, patient name and voxel array.
C1_RoundTrip ==
    LET a == cubes["a"]
        b == cubes["b"]
    IN  ( /\ last.op = "read" /\ last.result
          /\ disk.name = a.patient_name
          /\ Fmt(a.pixel_size, Q7) = a.pixel_size
          /\ Fmt(a.slice_distance, Q7) = a.slice_distance ) =>
            /\ b.dimx = a.dimx /\ b.dimy = a.dimy /\ b.dimz = a.dimz
            /\ b.pixel_size = a.pixel_size
            /\ b.slice_distance = a.slice_distance
            /\ b.slice_pos = a.slice_pos
            /\ b.xoffset = a.xoffset /\ b.yoffset = a.yoffset
            /\ b.data_type = a.data_type
            /\ b.num_bytes = a.num_bytes
            /\ b.byte_order = a.byte_order
            /\ b.patient_name = a.patient_name
            /\ b.cube = a.cube

\* the number of crossings of cr left of the centre of column i_x of cube c
CrossingsLeftOf(c, cr, i_x) ==
    Cardinality({j \in 1..Len(cr) : cr[j] < indices_to_pos(c, <<i_x, 0, 0>>)[1]})

\* C3: on a row whose crossing list is non-empty, sorted and of even length, the scan
\* gives column i the effect iff the number of crossings left of its centre is odd.
C3_RayCastingParity ==
    (scan.pc = "done" /\ Len(scan.cr) % 2 = 0) =>
        \A i \in 0..(cubes["a"].dimx - 1) :
            i \in scan.hit <=> CrossingsLeftOf(cubes["a"], scan.cr, i) % 2 = 1

\* The counter k of the scan after column i_x of a row with crossing list cr:
\* it moves on by one when it is below the crossing count and the centre of the
\* column lies right of crossing k.
RECURSIVE KAfter(_, _, _)
KAfter(c, cr, i_x) ==
    IF i_x < 0 THEN 0
    ELSE LET k == KAfter(c, cr, i_x - 1)
         IN  IF k < Len(cr) /\ (2 * i_x + 1) * c.pixel_size + 2 * c.xoffset > cr[k + 1]
             THEN k + 1 ELSE k

\* Voxel p of cube c is classified interior by the scan over region v: no row of its
\* slice up to its own is without data, and k is odd and short of the crossing count.
ScanInterior(c, v, p) ==
    /\ \A w \in 0..p[2] : ~row_intersection(c, v, w, p[3]).none
    /\ LET cr == row_intersection(c, v, p[2], p[3]).xs
       IN  /\ Len(cr) > 0
           /\ KAfter(c, cr, p[1]) % 2 = 1
           /\ KAfter(c, cr, p[1]) < Len(cr)

\* C4: mask_by_voi applied a second time with the same region and value leaves the
\* voxel array as the first application left it.
C4_MaskIdempotent ==
    (last.op = "mask_by_voi" /\ last.prev = "mask_by_voi" /\ last.value = last.prevvalue)
        => After.cube = Before.cube

C4_Witness ==
    /\ last.op = "mask_by_voi" /\ last.prev = "mask_by_voi" /\ last.value = last.prevvalue
    /\ \E p, q \in Voxels(After.cube) :
          At(After.cube, p) = last.value /\ At(After.cube, q) # last.value

\* C5: mask_by_voi and mask_by_voi_add change only the voxels the scan classifies as
\* interior, to value respectively old + value; every other voxel, the geometry and
\* the other cube are as before the call.
C5_ExteriorPreserved ==
    last.op \in {"mask_by_voi", "mask_by_voi_add"} =>
        /\ After = [Before EXCEPT !.cube = After.cube]
        /\ cubes["b"] = last.pre["b"]
        /\ Shape(After.cube) = Shape(Before.cube)
        /\ \A p \in Voxels(Before.cube) :
              At(After.cube, p) =
                  IF ~ScanInterior(Before, voi, p) THEN At(Before.cube, p)
                  ELSE IF last.op = "mask_by_voi" THEN last.value
                  ELSE At(Before.cube, p) + last.value

C5_Witness ==
    /\ last.op = "mask_by_voi_add"
    /\ voi.ynone # {}
    /\ \E p, q \in Voxels(After.cube) :
          /\ At(After.cube, p) # At(Before.cube, p)
          /\ At(After.cube, q) = At(Before.cube, q)
          /\ ScanInterior(Before, voi, p) /\ ~ScanInterior(Before, voi, q)
          /\ p[2] = q[2] /\ p[3] = q[3]

\* C6: after mask_by_voi_all(voi, preset) the cube holds a grid of shape
\* (dimz, dimy, dimx) whose interior voxels equal preset and whose other voxels are 0,
\* whatever it held before; with preset = 0 the grid is all zeros.
C6_FullRebuild ==
    last.op = "mask_by_voi_all" =>
        /\ Shape(After.cube) = <<After.dimz, After.dimy, After.dimx>>
        /\ \A p \in Voxels(After.cube) :
              At(After.cube, p) = IF ScanInterior(Before, voi, p) THEN last.value ELSE 0
        /\ last.value = 0 => \A p \in Voxels(After.cube) : At(After.cube, p) = 0

C6_Witness ==
    /\ last.op = "mask_by_voi_all" /\ last.value # 0
    /\ \A p \in Voxels(Before.cube) : At(Before.cube, p) # 0
    /\ \E p, q \in Voxels(After.cube) :
          At(After.cube, p) = last.value /\ At(After.cube, q) = 0

\* C7: check_compatibility(a, b) equals check_compatibility(b, a).
C7_CompatibilitySymmetric ==
    last.op = "check_compatibility" =>
        last.result = check_compatibility(cubes[last.other], cubes[last.id])

\* C8: check_compatibility(a, b), and is_compatible, is true iff a and b have equal
\* dimx, dimy, dimz and slice_distance and pixel sizes that differ by at most 1e-5.
C8_CompatibilityCriterion ==
    last.op \in {"check_compatibility", "is_compatible"} =>
        last.result =
            LET a == cubes[last.id]
                b == cubes[last.other]
            IN  /\ a.dimx = b.dimx /\ a.dimy = b.dimy /\ a.dimz = b.dimz
                /\ a.slice_distance = b.slice_distance
                /\ Abs(a.pixel_size - b.pixel_size) <= Eps

\* the cube that was the argument of the last operation, before it
OtherBefore == last.pre[last.other]

-----------------------------------------------------------------------------
(* C11: merge, merge_zero and the operators +, -, * and /, given another cube for
   which check_compatibility is false, fail and leave both cubes unchanged: the
   operators do not return a cube, and merge and merge_zero change no voxel *)
C11_IncompatibleRejected ==
    (/\ last.op \in ArithOps \cup {"merge", "merge_zero"}
     /\ ~check_compatibility(Before, OtherBefore))
        => /\ last.op \in ArithOps => ~last.result
           /\ cubes["a"] = last.pre["a"]
           /\ cubes["b"] = last.pre["b"]

-----------------------------------------------------------------------------
(* C12: a header whose data type and byte count are no supported combination
   (integer with 1, 2 or 4 bytes, float or double with 4 or 8 bytes) is rejected
   when the format is set up: reading the header fails, and a read of header and
   data fails without replacing the voxel array *)
SupportedFormat(data_type, num_bytes) ==
    \/ data_type = "integer" /\ num_bytes \in {1, 2, 4}
    \/ data_type \in {"float", "double"} /\ num_bytes \in {4, 8}

C12_UnsupportedFormatRejected ==
    (/\ last.op \in {"read_header", "read", "read_paths"}
     /\ After.header_set
     /\ ~SupportedFormat(After.data_type, After.num_bytes))
        => /\ ~last.result
           /\ After.cube = Before.cube

-----------------------------------------------------------------------------
(* C13: a read of a header or data path that does not exist, given as a basename or
   as a pair of paths, fails and leaves every field of the cube as it was *)
C13_MissingFileRejected ==
    (last.op \in {"read", "read_paths"} /\ last.value = 0)
        => ~last.result /\ After = Before

-----------------------------------------------------------------------------
(* C14: when header and data file exist, the format is one numpy knows and the data
   file, plain or compressed, holds a number of elements other than
   dimx * dimy * dimz, the read fails and the voxel array is not replaced *)
ElementsHeld(file, format_str) == Len(file.data.bytes) \div ItemSize(format_str[2])

C14_SizeMismatchRejected ==
    (/\ last.op \in {"read", "read_paths"} /\ last.value = 1
     /\ ValidFormat(After.format_str)
     /\ Len(disk.data.bytes) % ItemSize(After.format_str[2]) = 0
     /\ ElementsHeld(disk, After.format_str) # After.dimx * After.dimy * After.dimz)
        => ~last.result /\ After.cube = Before.cube

-----------------------------------------------------------------------------
(* C15: every cube that has a header set has as many slice positions as dimz says,
   and a voxel array of shape (dimz, dimy, dimx) *)
HasShape(g, dimz, dimy, dimx) ==
    /\ Len(g) = dimz
    /\ \A z \in 1..Len(g) :
          /\ Len(g[z]) = dimy
          /\ \A y \in 1..Len(g[z]) : Len(g[z][y]) = dimx

ShapeInvariant(c) ==
    c.header_set => /\ Len(c.slice_pos) = c.dimz
                    /\ HasShape(c.cube, c.dimz, c.dimy, c.dimx)

C15_ShapeInvariant == \A id \in DOMAIN cubes : ShapeInvariant(cubes[id])

-----------------------------------------------------------------------------
(* C16: after c was copy-constructed, a change of one cube - of its slice positions
   in place, of another geometry field, of a voxel - is not seen through any other
   cube *)
Mutations == {"set_slice_pos", "append_slice_pos", "set_geometry", "set_voxel"}

C16_CopyIndependent ==
    (last.op \in Mutations /\ cubes["c"].header_set)
        => \A y \in DOMAIN cubes \ {last.id} : cubes[y] = last.pre[y]

-----------------------------------------------------------------------------
(* C17: for a region that covers the whole dose cube - it has a slice at every slice
   position and holds every voxel of the plane - and a cube whose voxels all hold
   the dose d, calculate_dvh returns a curve that is 1 for the bins up to d and 0
   above, the mean dose d / 1000, and as volume the number of voxels times
   pixel_size * pixel_size * slice_distance *)
Covers(v, c) ==
    /\ \A i \in 1..c.dimz : c.slice_pos[i] \in v.slices
    /\ v.inside = Plane(c)

C17_DvhNormalization ==
    LET c == cubes["a"]
        r == last.result
        d == c.cube[1][1][1]
    IN  (last.op = "calculate_dvh" /\ Covers(voi, c) /\ Doses(c) = {d}) =>
            /\ ~r.none /\ ~r.raised
            /\ \A j \in 0..(maximum_dose - 1) :
                  dvh_y(r, j) = IF j <= d THEN <<1, 1>> ELSE <<0, 1>>
            /\ r.mean_dose = Frac(d, TargetDose)
            /\ r.mean_volume =
                  Frac(c.dimx * c.dimy * c.dimz * (c.pixel_size \div MM) * (c.pixel_size \div MM)
                           * (c.slice_distance \div MM), 1)

-----------------------------------------------------------------------------
(* C18: calculate_dvh returns None iff the region has no slice at any slice position
   of the cube; with a slice at one of them at least, it returns the tuple *)
C18_DvhNoneIffNoOverlap ==
    LET c == cubes["a"]
        r == last.result
        overlap == \E i \in 1..c.dimz : ~get_slice_at_pos(voi, c.slice_pos[i]).none
    IN  last.op = "calculate_dvh" =>
            /\ r.none <=> ~overlap
            /\ overlap => ~r.none /\ ~r.raised

-----------------------------------------------------------------------------
(* C19: every column of a row with crossings is visited; k goes up by one
   at a column whose centre exceeds the crossing at index k, while k is below the
   crossing count; the column gets the effect iff k is odd after that - also once
   k has reached the crossing count *)
C19_RowScanStepRule ==
    scan.pc = "done" =>
        \A i \in 0..(cubes["a"].dimx - 1) :
            i \in scan.hit <=> KAfter(cubes["a"], scan.cr, i) % 2 = 1

-----------------------------------------------------------------------------
(* C20: on every sorted crossing list of length >= 1, odd or even, and every dimx >= 1
   the row scan reads the crossing at index k only with 0 <= k < number of
   crossings, and it comes to its end *)
C20_RowScanInBounds ==
    /\ [](scan.pc = "loop" => /\ 0 <= scan.k /\ scan.k < Len(scan.cr)
                              /\ 0 <= scan.i_x /\ scan.i_x < cubes["a"].dimx)
    /\ <>(scan.pc = "done")

\* a scan that ended with all of an odd number of crossings consumed
C20_Witness ==
    /\ scan.pc = "done"
    /\ Len(scan.cr) % 2 = 1
    /\ scan.k = Len(scan.cr)

-----------------------------------------------------------------------------
\* the array a pass starts from: self.cube, or zeros for mask_by_voi_all
PassBaseline ==
    IF scan.op = "mask_by_voi_all"
    THEN Grid(cubes["a"].dimz, cubes["a"].dimy, cubes["a"].dimx, 0)
    ELSE last.pre["a"].cube

\* the region has no data for row r of slice z, and has data for the rows before it
FirstNoData(c, r, z) ==
    /\ row_intersection(c, voi, r, z).none
    /\ \A y \in 0..(r - 1) : ~row_intersection(c, voi, y, z).none

(* C21: when the region answers None for row r of slice z, the pass queries no
   row after r of slice z and writes to no row >= r of it; the rows before r keep
   what the pass wrote to them; and the next row queried is row 0 of slice z + 1,
   so that every later slice is processed *)
C21_NoDataSkipsRestOfSlice ==
    LET c == cubes["a"]
        q == scan.queried
    IN  scan.pc \in {"row", "done"} =>
          \A z \in 0..(c.dimz - 1), r \in 0..(c.dimy - 1) :
            FirstNoData(c, r, z) =>
              /\ \A j \in 1..Len(q) : q[j][2] = z => q[j][1] <= r
              /\ \A w \in scan.written : w[3] = z => w[2] < r
              /\ \A y \in r..(c.dimy - 1) : scan.data[z + 1][y + 1] = PassBaseline[z + 1][y + 1]
              /\ \A j \in 1..Len(q) :
                    q[j][1] = r /\ q[j][2] = z =>
                      /\ \A y \in 0..(r - 1) :
                            scan.data[z + 1][y + 1] =
                                row_effect(PassBaseline[z + 1][y + 1],
                                           masked_columns(c, voi, y, z), scan.op, scan.value)
                      /\ j < Len(q) => q[j + 1][1] = 0 /\ q[j + 1][2] = z + 1
                      /\ j = Len(q) /\ z + 1 < c.dimz => scan.pc = "row" /\ scan.i_y = 0 /\ scan.i_z = z + 1
              /\ scan.pc = "done" /\ Len(q) > 0 =>
                    /\ cubes["a"].cube = scan.data
                    /\ \A z2 \in 0..(c.dimz - 1) : \E j \in 1..Len(q) : q[j][1] = 0 /\ q[j][2] = z2

\* a finished pass that met None on the second row of the first slice, after writing
\* to the first row, and went on to write to the next slice
C21_Witness ==
    /\ scan.pc = "done"
    /\ FirstNoData(cubes["a"], 1, 0)
    /\ \E w \in scan.written : w[3] = 0 /\ w[2] = 0
    /\ \E w \in scan.written : w[3] = 1
    /\ scan.data[1][1] # PassBaseline[1][1]

\* the pass row by row ends with the array the whole-pass operators give
PassAgrees ==
    scan.pc = "done" =>
        cubes["a"] = IF scan.op = "mask_by_voi" THEN mask_by_voi(last.pre["a"], voi, scan.value)
                     ELSE IF scan.op = "mask_by_voi_add" THEN mask_by_voi_add(last.pre["a"], voi, scan.value)
                     ELSE mask_by_voi_all(last.pre["a"], voi, scan.value)

-----------------------------------------------------------------------------
(* C22: for every slice index k the region is asked at z = slice_pos[k]: by
   calculate_dvh (the z handed to get_slice_at_pos, slice after slice, is the
   slice position table) as by the masking operations *)
C22_ZFromSliceTable ==
    last.op = "calculate_dvh" => last.result.z_queried = cubes["a"].slice_pos

\* the rows a masking pass queries lie at the z of their slice in the slice position
\* table (in half units)
PassQueriesSlicePos ==
    \A j \in 1..Len(scan.queried) :
        scan.queried[j][3] = 2 * cubes["a"].slice_pos[scan.queried[j][2] + 1]

-----------------------------------------------------------------------------
(* C23 as stated: slice_to_z(n) is slice_pos[n - 1] for 1 <= n <= dimz, and for
   every other n, 0 and the negative ones included, it fails with an index error *)
C23_SliceToZAsStated ==
    last.op = "slice_to_z" =>
        LET c == cubes["a"]
            n == last.value
        IN  IF 1 <= n /\ n <= c.dimz
            THEN ~last.result.raised /\ last.result.value = c.slice_pos[n]
            ELSE last.result.raised

(* C23 as amended: with len the number of slice positions the cube holds,
   slice_to_z(n) is slice_pos[n - 1] for 1 <= n <= len, it is slice_pos[len + n - 1]
   (counted from the end) for -len < n <= 0, and it fails with an index error for
   n > len and for n <= -len *)
C23_SliceToZ ==
    last.op = "slice_to_z" =>
        LET c == cubes["a"]
            n == last.value
            len == Len(c.slice_pos)
        IN  /\ 1 <= n /\ n <= len =>
                ~last.result.raised /\ last.result.value = c.slice_pos[n]
            /\ 0 - len < n /\ n <= 0 =>
                ~last.result.raised /\ last.result.value = c.slice_pos[len + n]
            /\ n > len \/ n <= 0 - len => last.result.raised

\* slice_to_z(0) on a cube of two or more slices has answered the last slice position
C23_Witness ==
    /\ last.op = "slice_to_z"
    /\ last.value = 0
    /\ Len(cubes["a"].slice_pos) >= 2
    /\ ~last.result.raised
    /\ last.result.value = cubes["a"].slice_pos[Len(cubes["a"].slice_pos)]

-----------------------------------------------------------------------------
(* C24: on a cube that was neither read nor created (header_set false) each of
   write, mask_by_voi, mask_by_voi_add, mask_by_voi_all, indices_to_pos, slice_to_z
   and create_dicom fails with the header-not-loaded error (InputError("Header not
   loaded")) and leaves the cube as it was *)
C24_HeaderNotLoaded ==
    last.op # "none" /\ ~last.pre["a"].header_set =>
        /\ last.result = "InputError"
        /\ cubes["a"] = last.pre["a"]

-----------------------------------------------------------------------------
(* C25: after a header was parsed: with a slice table z_table is true and the slice
   positions are the dimz authored positions as written; without one z_table is
   false and slice_pos[n] = zoffset * slice_distance + n * slice_distance for n in
   0 .. dimz - 1; xoffset and yoffset are the header's integers times pixel_size,
   in whatever order the directives stand *)
C25_SlicePositionsAfterParse ==
    last.op = "read_header" /\ last.result /\ ~disk.added =>
        LET c == cubes["b"]
            g == disk.given
        IN  /\ c.z_table = g.z_table
            /\ c.slice_pos =
                 IF g.z_table THEN [i \in 1..g.dimz |-> AuthoredPosition(i)]
                 ELSE [i \in 1..g.dimz |->
                          g.zoffset * g.slice_distance + (i - 1) * g.slice_distance]
            /\ c.xoffset = g.xoffset * g.pixel_size
            /\ c.yoffset = g.yoffset * g.pixel_size

-----------------------------------------------------------------------------
(* C26: once the format is set up, the format string is "<" (vms) or ">" (aix)
   followed by exactly one type code, and the element type is int8 for 1 byte, int16
   for 2 bytes, int32 for a 4-byte integer, float32 for a 4-byte float and float64
   for 8 bytes, whatever data type (integer, float, double) is declared *)
ElementType(data_type, num_bytes) ==
    CASE num_bytes = 1 -> <<"b", "int8">>
      [] num_bytes = 2 -> <<"h", "int16">>
      [] num_bytes = 4 /\ data_type = "integer" -> <<"i", "int32">>
      [] num_bytes = 4 /\ data_type = "float" -> <<"f", "float32">>
      [] num_bytes = 8 -> <<"d", "float64">>
      [] OTHER -> <<"", "">>

C26_ElementTypeSelection ==
    last.op = "read_header" /\ last.result =>
        LET c == cubes["b"]
            e == ElementType(c.data_type, c.num_bytes)
        IN  e[1] # "" =>
              /\ c.format_str = <<IF c.byte_order = "aix" THEN ">" ELSE "<", e[1]>>
              /\ c.pydata_type = e[2]

-----------------------------------------------------------------------------
(* C27: a header with an added line whose key is no directive - a key that only
   begins with the name of a directive included - parses as the header without that
   line does: the same metadata, and no failure where the plain header has none *)
C27_UnknownDirectivesIgnored ==
    last.op = "read_header" /\ disk.added =>
        LET plain == read_trip_header_file(last.pre["b"], [header |-> disk.plain])
        IN  /\ plain.err = ~last.result
            /\ ~plain.err => cubes["b"] = plain.cube

-----------------------------------------------------------------------------
(* C28: with the slices of a mask_by_voi or mask_by_voi_add pass worked on by
   concurrent workers in any interleaving, no voxel is written by two different
   workers, and when all have finished the voxel array is the one the sequential
   pass over z and then y gives *)
C28_SliceOrderIndependent ==
    /\ \A w1, w2 \in scan.written : w1[2] = w2[2] => w1[1] = w2[1]
    /\ scan.pc = "done" =>
          cubes["a"] = IF scan.op = "mask_by_voi"
                       THEN mask_by_voi(last.pre["a"], voi, scan.value)
                       ELSE mask_by_voi_add(last.pre["a"], voi, scan.value)

\* all workers have finished, two of them have written, and a worker of a later
\* slice took a step before one of an earlier slice
C28_Witness ==
    /\ scan.pc = "done"
    /\ \E w1, w2 \in scan.written : w1[1] # w2[1]
    /\ \E i, j \in 1..Len(scan.order) : i < j /\ scan.order[i] > scan.order[j]
    /\ cubes["a"] # last.pre["a"]

-----------------------------------------------------------------------------
(* C29: when calculate_dvh has found a slice of the cube that intersects the region,
   it returns a result, whatever the histogram - one without any count and one with
   all counts in the highest bin included - with the near-minimum dose the highest
   bin whose cumulative fraction is >= 0.98 and the near-maximum dose the lowest bin
   whose cumulative fraction is <= 0.02 (both over the target dose); it does not
   raise *)
C29_DvhNeverFails ==
    LET r == last.result
        total == r.sum_of_doses
        cum(j) == SumOver(r.dose_bins, {d \in DOMAIN r.dose_bins : d >= j})
        bins == 0..(maximum_dose - 1)
        high == {j \in bins : 100 * cum(j) >= 98 * total}
        low == {j \in bins : 100 * cum(j) <= 2 * total}
    IN  last.op = "calculate_dvh" /\ ~r.none =>
            /\ ~r.raised
            /\ \E j \in high : (\A j2 \in high : j2 <= j) /\ r.min_dose = Frac(j, TargetDose)
            /\ \E j \in low : (\A j2 \in low : j <= j2) /\ r.max_dose = Frac(j, TargetDose)

-----------------------------------------------------------------------------
(* C30: the format string of a cube made by the copying constructor from a cube of
   a supported data type and byte count is, as after a header was parsed or a file
   read, exactly two characters: "<" or ">" for the byte order and the one code of
   the element type recorded in the cube *)
C30_FormatTagInvariant ==
    last.op = "copy" /\ last.result
    /\ SupportedFormat(last.pre[last.other].data_type, last.pre[last.other].num_bytes) =>
        LET c == cubes["c"]
        IN  c.format_str = << IF c.byte_order = "aix" THEN ">" ELSE "<", TypeCode(c.pydata_type) >>

====
